---------------------------- MODULE Spec2Model ----------------------------
(***************************************************************************)
(* Model of the key-value storage abstraction of johnqh/di:                *)
(*   - MockPlatformStorage, MockAdvancedPlatformStorage                    *)
(*     (src/src/mocks/storage.mock.ts)                                     *)
(*   - WebStorage, AdvancedWebStorage over the browser's sessionStorage    *)
(*     (src/src/web/storage/storage.web.ts)                                *)
(*                                                                         *)
(* Conventions.  An Optional<T> is a sequence of length at most one:       *)
(* <<>> is null/undefined ("none"), <<v>> is the value v.  A key or a      *)
(* pattern is a sequence of one-character strings.  A Map is a function    *)
(* from Keys to Optional entries; the order of a key list is not           *)
(* modelled, getAllKeys returns a set.                                     *)
(***************************************************************************)
EXTENDS Integers, Sequences, FiniteSets, TLC

VARIABLES
    wired,           \* which backend family the run exercises
    now,             \* Date.now()
    mockStore,       \* MockPlatformStorage.store
    advStore,        \* MockAdvancedPlatformStorage.store
    sessionStorage,  \* the browser's sessionStorage, shared by both web adapters
    storageThrows,   \* sessionStorage calls throw (quota exceeded, access denied)
    written,         \* history: per key, the last write that took effect
    last,            \* history: the last call and what it returned
    defaultStorageType,   \* MockStorageFactory.defaultStorageType
    storageInstances,     \* MockStorageFactory.storageInstances
    serializedInstances,  \* MockStorageFactory.serializedInstances
    services,        \* the MockStorageService objects, by identity
    nextId,          \* identity of the next object created
    firstCreated,    \* history: per type, the first createStorage result since reset
    objectStore,     \* MockSerializedStorageService.store
    memoryData,      \* MemoryStorage.data, under the JsonStorageService
    env,             \* what the runtime offers: navigator.product, window, ...
    infoServiceInstance,     \* module variable of the info singleton
    networkServiceInstance,  \* module variable of the web network singleton
    analyticsService,        \* module variable of the Firebase analytics singleton
    installed,       \* history: per singleton, what the first initialize since
                     \* the last reset installed
    beforeReset,     \* history: per singleton, the instance the last reset dropped
    offline,         \* MockNetworkClient.offline
    errorRate,       \* MockNetworkClient.errorRate, in percent
    mockResponses,   \* MockNetworkClient.mockResponses
    defaultResponse, \* MockNetworkClient.defaultResponse
    requests,        \* MockNetworkClient.requests, as the set of (method, url)
    cameOnline,      \* history: simulateOnline() was called and no
                     \* simulateOffline() since
    racers,          \* two async callers of setItem: where each one is
    isLoading,       \* useApiCall: the isLoading state
    error,           \* useApiCall: the error state
    operations,      \* the operations passed to executeAsync: where each one is
    cache,           \* async-helpers: the cache Map of withCache
    cacheCalls,      \* the withCache calls that await their operation
    obtained,        \* history: per key, the last result an operation of
                     \* withCache produced, and when
    debounceMap,     \* async-helpers: the debounceMap Map, key to timer
    timers,          \* the calls of debounced functions: timer, promise, and
                     \* history of what became of them
    history,         \* MockNavigationService.history
    historyIndex     \* MockNavigationService.historyIndex, counted from 0

backendVars == <<mockStore, advStore, sessionStorage, storageThrows>>

factoryVars == <<defaultStorageType, storageInstances, serializedInstances,
                 services, nextId, firstCreated>>

serializedVars == <<objectStore, memoryData>>

platformVars == <<env>>

singletonVars == <<infoServiceInstance, networkServiceInstance, analyticsService,
                   installed, beforeReset>>

networkVars == <<offline, errorRate, mockResponses, defaultResponse, requests,
                 cameOnline>>

hookVars == <<isLoading, error, operations>>

cacheVars == <<cache, cacheCalls, obtained>>

debounceVars == <<debounceMap, timers>>

navigationVars == <<history, historyIndex>>

asyncVars == <<racers, hookVars, cacheVars, debounceVars, navigationVars>>

appVars == <<platformVars, singletonVars, networkVars, asyncVars>>

\* all the storage state
storageVars == <<now, written, backendVars, factoryVars, serializedVars>>

vars == <<wired, now, written, last, backendVars, factoryVars, serializedVars,
          appVars>>

----------------------------------------------------------------------------
(* Bounds and input sets *)

MaxTime == 5

K_user1 == <<"u", "s", "e", "r", ":", "1">>
K_other == <<"o", "t", "h", "e", "r">>
Keys == {K_user1, K_other}

Values == {"", "x"}

\* ttl argument of setItem: absent, 0, or a positive duration
Ttls == {<<>>, <<0>>, <<1>>, <<2>>}

P_userStar == <<"u", "s", "e", "r", ":", "*">>
P_empty == <<>>
\* a pattern with a character that is special in a regular expression
P_userDot1 == <<"u", "s", "e", "r", ".", "1">>
\* pattern argument of clearPattern: absent, "", "user:*", "other"
PatternArgs == {<<>>, <<P_empty>>, <<P_userStar>>, <<K_other>>, <<P_userDot1>>}

Backends == {"MockPlatformStorage", "MockAdvancedPlatformStorage", "sessionStorage"}

\* objects a run may create
MaxInst == 3

\* enum StorageType
StorageTypes == {"localStorage", "sessionStorage", "asyncStorage", "memory"}

\* the types the factory is asked for
TypesUsed == {"localStorage", "memory"}

\* a value outside the enum, as a cast or an untyped caller can pass
T_unsupported == "unsupported"
\* the callers of the factory: one passes enum members, the other also a
\* value outside the enum
FactoryCallers == {"MockStorageFactory", "MockStorageFactory, untyped caller"}
\* the types the factory is asked for, and the keys its Maps can hold
TypesAsked ==
    IF wired = "MockStorageFactory" THEN TypesUsed ELSE {"memory", T_unsupported}
TypeKeys == StorageTypes \cup {T_unsupported}

Ids == 1..MaxInst

EmptyMap == [k \in Keys |-> <<>>]

----------------------------------------------------------------------------
(* Strings held by sessionStorage.  A string is either a plain text that   *)
(* is no JSON document (every element of Values: JSON.parse("") and        *)
(* JSON.parse("x") throw SyntaxError) or the text JSON.stringify produced  *)
(* for an object, represented by that object as JSON.parse reads it back.  *)

PlainText(s) == [json |-> FALSE, text |-> s, obj |-> <<>>]

\* JSON.stringify(item) for item = {value, timestamp, ttl}: a property whose
\* value is undefined is left out of the text.
JSONstringify(item) == [json |-> TRUE, text |-> "{...}", obj |-> <<item>>]

\* JSON.parse: <<obj>> for the text of an object, <<>> for SyntaxError
JSONparse(str) == IF str.json THEN str.obj ELSE <<>>

\* JavaScript truthiness of a string: !"" is true
Falsy(str) == ~str.json /\ str.text = ""

----------------------------------------------------------------------------
(* JavaScript values handed to setObject, and JSON text.                   *)
(* A value is a record: t its type, s the characters of a string or the    *)
(* lexeme of a number or boolean, keys and items the property names and    *)
(* the members of a container. A text is a sequence of characters.         *)

JSString(cs) == [t |-> "string", s |-> cs, keys |-> <<>>, items |-> <<>>]
JSNumber(lexeme) == [t |-> "number", s |-> lexeme, keys |-> <<>>, items |-> <<>>]
JSBoolean(lexeme) == [t |-> "boolean", s |-> lexeme, keys |-> <<>>, items |-> <<>>]
JSNull == [t |-> "null", s |-> <<>>, keys |-> <<>>, items |-> <<>>]
JSUndefined == [t |-> "undefined", s |-> <<>>, keys |-> <<>>, items |-> <<>>]
JSArray(items) == [t |-> "array", s |-> <<>>, keys |-> <<>>, items |-> items]
JSObject(keys, items) == [t |-> "object", s |-> <<>>, keys |-> keys, items |-> items]

T_null == <<"n", "u", "l", "l">>
T_true == <<"t", "r", "u", "e">>
T_false == <<"f", "a", "l", "s", "e">>
N_NaN == <<"N", "a", "N">>
N_negZero == <<"-", "0">>
Digits == {"0", "1", "2", "3", "4", "5", "6", "7", "8", "9"}
Quote == "\""
Backslash == "\\"

RECURSIVE QuoteChars(_)
\* the escapes JSON.stringify applies inside a string
QuoteChars(cs) ==
    IF cs = <<>> THEN <<>>
    ELSE (IF Head(cs) \in {Quote, Backslash} THEN <<Backslash, Head(cs)>>
          ELSE <<Head(cs)>>) \o QuoteChars(Tail(cs))

QuoteJSONString(cs) == <<Quote>> \o QuoteChars(cs) \o <<Quote>>

RECURSIVE JoinTexts(_)
\* the texts of a sequence, separated by commas
JoinTexts(texts) ==
    IF texts = <<>> THEN <<>>
    ELSE IF Len(texts) = 1 THEN texts[1]
    ELSE texts[1] \o <<",">> \o JoinTexts(Tail(texts))

RECURSIVE SerializeJSONProperty(_)
RECURSIVE SerializeMembers(_, _)
\* the "key":value texts of an object; a property whose value is undefined
\* is left out
SerializeMembers(keys, items) ==
    IF keys = <<>> THEN <<>>
    ELSE LET text == SerializeJSONProperty(items[1])
         IN  (IF text = <<>> THEN <<>>
              ELSE << QuoteJSONString(keys[1]) \o <<":">> \o text[1] >>)
             \o SerializeMembers(Tail(keys), Tail(items))

\* JSON.stringify of one value: <<text>>, or <<>> where it yields undefined
SerializeJSONProperty(value) ==
    CASE value.t = "undefined" -> <<>>
      [] value.t = "null" -> <<T_null>>
      [] value.t = "boolean" -> <<value.s>>
      [] value.t = "string" -> <<QuoteJSONString(value.s)>>
      [] value.t = "number" ->
             IF value.s = N_NaN THEN <<T_null>>
             ELSE IF value.s = N_negZero THEN << <<"0">> >>
             ELSE <<value.s>>
      [] value.t = "array" ->
             << <<"[">>
                \o JoinTexts([i \in 1..Len(value.items) |->
                       LET text == SerializeJSONProperty(value.items[i])
                       IN  IF text = <<>> THEN T_null ELSE text[1]])
                \o <<"]">> >>
      [] value.t = "object" ->
             << <<"{">> \o JoinTexts(SerializeMembers(value.keys, value.items))
                \o <<"}">> >>

\* JSON.stringify(value), for an arbitrary value
JSON_stringify(value) == SerializeJSONProperty(value)

\* the outcome of reading one piece of a text: the value read and the
\* position after it, or ok = FALSE
Parsed(value, next) == [ok |-> TRUE, val |-> value, next |-> next]
ParseError == [ok |-> FALSE, val |-> JSNull, next |-> 0]

At(text, i) == IF i >= 1 /\ i <= Len(text) THEN text[i] ELSE "EOF"

Literal(text, i, word) ==
    /\ i + Len(word) - 1 <= Len(text)
    /\ SubSeq(text, i, i + Len(word) - 1) = word

RECURSIVE EndOfDigits(_, _)
\* the position after the run of digits starting at i
EndOfDigits(text, i) ==
    IF At(text, i) \in Digits THEN EndOfDigits(text, i + 1) ELSE i

\* number: an optional minus, then 0 or a run of digits not starting with 0
ParseNumber(text, i) ==
    LET first == IF At(text, i) = "-" THEN i + 1 ELSE i
        end == IF At(text, first) = "0" THEN first + 1
               ELSE EndOfDigits(text, first)
    IN  IF end = first THEN ParseError
        ELSE Parsed(JSNumber(SubSeq(text, i, end - 1)), end)

RECURSIVE ParseString(_, _, _)
\* the characters up to the closing quote, i being after the opening one
ParseString(text, i, acc) ==
    LET c == At(text, i)
    IN  CASE c = "EOF" -> ParseError
          [] c = Quote -> Parsed(JSString(acc), i + 1)
          [] c = Backslash ->
                 IF At(text, i + 1) \in {Quote, Backslash}
                 THEN ParseString(text, i + 2, Append(acc, At(text, i + 1)))
                 ELSE ParseError
          [] OTHER -> ParseString(text, i + 1, Append(acc, c))

RECURSIVE ParseValue(_, _)
RECURSIVE ParseElements(_, _, _)
RECURSIVE ParseMembers(_, _, _, _)

\* the elements of an array after "[" or ",", up to "]"
ParseElements(text, i, acc) ==
    LET r == ParseValue(text, i)
    IN  IF ~r.ok THEN ParseError
        ELSE CASE At(text, r.next) = "," ->
                      ParseElements(text, r.next + 1, Append(acc, r.val))
               [] At(text, r.next) = "]" ->
                      Parsed(JSArray(Append(acc, r.val)), r.next + 1)
               [] OTHER -> ParseError

\* the members of an object after "{" or ",", up to "}"
ParseMembers(text, i, keys, items) ==
    IF At(text, i) # Quote THEN ParseError
    ELSE LET k == ParseString(text, i + 1, <<>>)
         IN  IF ~k.ok \/ At(text, k.next) # ":" THEN ParseError
             ELSE LET r == ParseValue(text, k.next + 1)
                  IN  IF ~r.ok THEN ParseError
                      ELSE CASE At(text, r.next) = "," ->
                                    ParseMembers(text, r.next + 1,
                                                 Append(keys, k.val.s),
                                                 Append(items, r.val))
                             [] At(text, r.next) = "}" ->
                                    Parsed(JSObject(Append(keys, k.val.s),
                                                    Append(items, r.val)),
                                           r.next + 1)
                             [] OTHER -> ParseError

ParseValue(text, i) ==
    LET c == At(text, i)
    IN  CASE Literal(text, i, T_null) -> Parsed(JSNull, i + 4)
          [] Literal(text, i, T_true) -> Parsed(JSBoolean(T_true), i + 4)
          [] Literal(text, i, T_false) -> Parsed(JSBoolean(T_false), i + 5)
          [] c = Quote -> ParseString(text, i + 1, <<>>)
          [] c = "[" -> IF At(text, i + 1) = "]" THEN Parsed(JSArray(<<>>), i + 2)
                        ELSE ParseElements(text, i + 1, <<>>)
          [] c = "{" -> IF At(text, i + 1) = "}"
                        THEN Parsed(JSObject(<<>>, <<>>), i + 2)
                        ELSE ParseMembers(text, i + 1, <<>>, <<>>)
          [] c = "-" \/ c \in Digits -> ParseNumber(text, i)
          [] OTHER -> ParseError

\* JSON.parse(text): <<value>>, or <<>> where it throws SyntaxError
JSON_parse(text) ==
    LET r == ParseValue(text, 1)
    IN  IF r.ok /\ r.next = Len(text) + 1 THEN <<r.val>> ELSE <<>>

----------------------------------------------------------------------------
(* MockPlatformStorage *)

MockPlatformStorage_setItem(store, key, value) ==
    [store EXCEPT ![key] = <<value>>]

\* mutant: this.store.get(key) || null, which loses the empty string
MockPlatformStorage_getItem_or(store, key) ==
    IF store[key] = <<"">> THEN <<>> ELSE store[key]

\* this.store.get(key) ?? null
MockPlatformStorage_getItem(store, key) == store[key]

MockPlatformStorage_removeItem(store, key) == [store EXCEPT ![key] = <<>>]

MockPlatformStorage_getAllKeys(store) == {k \in Keys : store[k] # <<>>}

----------------------------------------------------------------------------
(* MockAdvancedPlatformStorage *)

\* mutant: an entry that is replaced keeps its createdAt
MockAdvanced_setItem_keepsClock(store, key, value, ttl, t) ==
    [store EXCEPT ![key] =
        <<[value |-> value, ttl |-> ttl,
           createdAt |-> IF store[key] = <<>> THEN t ELSE store[key][1].createdAt]>>]

\* mutant: a key that has an entry keeps it
MockAdvanced_setItem_keepsFirst(store, key, value, ttl, t) ==
    IF store[key] # <<>> THEN store
    ELSE [store EXCEPT ![key] = <<[value |-> value, ttl |-> ttl, createdAt |-> t]>>]

\* setItem: { value, ttl: ttl ?? undefined, createdAt: Date.now() }
MockAdvanced_setItem(store, key, value, ttl, t) ==
    [store EXCEPT ![key] = <<[value |-> value, ttl |-> ttl, createdAt |-> t]>>]

\* mutant: a TTL of 0 is a TTL like any other
MockAdvanced_expired_zero(entry, t) ==
    /\ entry.ttl # <<>>
    /\ t - entry.createdAt > entry.ttl[1]

\* mutant: >= in place of >
MockAdvanced_expired_ge(entry, t) ==
    /\ entry.ttl # <<>>
    /\ entry.ttl[1] # 0
    /\ t - entry.createdAt >= entry.ttl[1]

\* entry.ttl && Date.now() - entry.createdAt > entry.ttl   (0 is falsy)
MockAdvanced_expired(entry, t) ==
    /\ entry.ttl # <<>>
    /\ entry.ttl[1] # 0
    /\ t - entry.createdAt > entry.ttl[1]

MockAdvanced_removeItem(store, key) == [store EXCEPT ![key] = <<>>]

\* the value getItem returns
MockAdvanced_getItem(store, key, t) ==
    IF store[key] = <<>> THEN <<>>
    ELSE IF MockAdvanced_expired(store[key][1], t) THEN <<>>
    ELSE <<store[key][1].value>>

\* the store getItem and hasItem leave: an expired entry is deleted
MockAdvanced_touch(store, key, t) ==
    IF store[key] # <<>> /\ MockAdvanced_expired(store[key][1], t)
    THEN [store EXCEPT ![key] = <<>>]
    ELSE store

MockAdvanced_hasItem(store, key, t) ==
    IF store[key] = <<>> THEN FALSE
    ELSE ~MockAdvanced_expired(store[key][1], t)

\* !entry.ttl || now - entry.createdAt <= entry.ttl ; nothing is deleted
MockAdvanced_getAllKeys(store, t) ==
    {k \in Keys : store[k] # <<>> /\
        (store[k][1].ttl = <<>> \/ store[k][1].ttl[1] = 0
           \/ t - store[k][1].createdAt <= store[k][1].ttl[1])}

\* pattern.replace(/\*/g, '.*')
RECURSIVE ReplaceStar(_)
ReplaceStar(p) ==
    IF p = <<>> THEN <<>>
    ELSE IF Head(p) = "*" THEN <<".", "*">> \o ReplaceStar(Tail(p))
    ELSE <<Head(p)>> \o ReplaceStar(Tail(p))

\* one regular-expression atom against one character: "." is any character
AtomMatches(a, c) == a = "." \/ a = c

\* new RegExp('^' + re + '$').test(s), for literals, "." and a postfix "*"
RECURSIVE RegExpTest(_, _)
RegExpTest(re, s) ==
    IF re = <<>> THEN s = <<>>
    ELSE IF Len(re) >= 2 /\ re[2] = "*"
    THEN \/ RegExpTest(Tail(Tail(re)), s)
         \/ s # <<>> /\ AtomMatches(Head(re), Head(s)) /\ RegExpTest(re, Tail(s))
    ELSE s # <<>> /\ AtomMatches(Head(re), Head(s))
           /\ RegExpTest(Tail(re), Tail(s))

\* mutant: an absent pattern matches nothing
MockAdvanced_clearPattern_absent(store, pattern) ==
    IF pattern = <<>> THEN store
    ELSE IF pattern[1] = <<>> THEN EmptyMap
    ELSE [k \in Keys |->
            IF RegExpTest(ReplaceStar(pattern[1]), k) THEN <<>> ELSE store[k]]

\* clearPattern: !pattern is true for an absent pattern and for ""
MockAdvanced_clearPattern(store, pattern) ==
    IF pattern = <<>> \/ pattern[1] = <<>> THEN EmptyMap
    ELSE [k \in Keys |->
            IF RegExpTest(ReplaceStar(pattern[1]), k) THEN <<>> ELSE store[k]]

\* expireItem: entry.createdAt = 0; entry.ttl = 1
MockAdvanced_expireItem(store, key) ==
    IF store[key] = <<>> THEN store
    ELSE [store EXCEPT ![key] = <<[@[1] EXCEPT !.createdAt = 0, !.ttl = <<1>>]>>]

----------------------------------------------------------------------------
(* WebStorage: every sessionStorage call sits in try/catch *)

WebStorage_setItem(ss, key, value, throws) ==
    IF throws THEN ss ELSE [ss EXCEPT ![key] = <<value>>]

\* mutant: the catch block returns the empty string
WebStorage_getItem_empty(ss, key, throws) ==
    IF throws THEN <<PlainText("")>> ELSE ss[key]

WebStorage_getItem(ss, key, throws) == IF throws THEN <<>> ELSE ss[key]

WebStorage_removeItem(ss, key, throws) ==
    IF throws THEN ss ELSE [ss EXCEPT ![key] = <<>>]

WebStorage_clear(ss, throws) == IF throws THEN ss ELSE EmptyMap

WebStorage_getAllKeys(ss, throws) ==
    IF throws THEN {} ELSE {k \in Keys : ss[k] # <<>>}

----------------------------------------------------------------------------
(* AdvancedWebStorage, which wraps a WebStorage *)

\* setItem: JSON.stringify({ value, timestamp: Date.now(), ttl })
AdvancedWeb_setItem(ss, key, value, ttl, t, throws) ==
    WebStorage_setItem(ss, key,
        JSONstringify([value |-> value, timestamp |-> t, ttl |-> ttl]), throws)

\* item.ttl && Date.now() - item.timestamp > item.ttl
AdvancedWeb_expired(item, t) ==
    /\ item.ttl # <<>>
    /\ item.ttl[1] # 0
    /\ t - item.timestamp > item.ttl[1]

\* the value getItem returns; a JSON.parse error is caught and gives null
AdvancedWeb_getItem(ss, key, t, throws) ==
    LET itemStr == WebStorage_getItem(ss, key, throws)
    IN  IF itemStr = <<>> \/ Falsy(itemStr[1]) THEN <<>>
        ELSE LET item == JSONparse(itemStr[1])
             IN  IF item = <<>> THEN <<>>
                 ELSE IF AdvancedWeb_expired(item[1], t) THEN <<>>
                 ELSE <<item[1].value>>

\* the sessionStorage getItem leaves: an expired item is removed
AdvancedWeb_touch(ss, key, t, throws) ==
    LET itemStr == WebStorage_getItem(ss, key, throws)
    IN  IF itemStr = <<>> \/ Falsy(itemStr[1]) THEN ss
        ELSE LET item == JSONparse(itemStr[1])
             IN  IF item # <<>> /\ AdvancedWeb_expired(item[1], t)
                 THEN WebStorage_removeItem(ss, key, throws)
                 ELSE ss

AdvancedWeb_removeItem(ss, key, throws) == WebStorage_removeItem(ss, key, throws)

AdvancedWeb_clear(ss, throws) == WebStorage_clear(ss, throws)

\* return this.storage.getItem(key) !== null
AdvancedWeb_hasItem(ss, key, throws) == WebStorage_getItem(ss, key, throws) # <<>>

AdvancedWeb_getAllKeys(ss, throws) == WebStorage_getAllKeys(ss, throws)

\* key.includes(pattern)
Includes(s, sub) ==
    \E i \in 1..(Len(s) + 1) :
        i + Len(sub) - 1 <= Len(s) /\ SubSeq(s, i, i + Len(sub) - 1) = sub

AdvancedWeb_clearPattern(ss, pattern, throws) ==
    IF pattern = <<>> \/ pattern[1] = <<>> THEN AdvancedWeb_clear(ss, throws)
    ELSE [k \in Keys |->
            IF k \in AdvancedWeb_getAllKeys(ss, throws) /\ Includes(k, pattern[1])
            THEN AdvancedWeb_removeItem(ss, k, throws)[k]
            ELSE ss[k]]


----------------------------------------------------------------------------
(* MockStorageService: heap maps an identity to <<object>>, or to <<>>     *)
(* when no such object is tracked.                                         *)

\* field initialisers: store = new Map(), available = true, storageType = MEMORY
NewMockStorageService ==
    [store |-> EmptyMap, available |-> TRUE, storageType |-> "memory"]

\* this.store.get(key) ?? null
MockStorageService_getItem(heap, id, key) == heap[id][1].store[key]

\* mutant: one store shared by every instance
MockStorageService_setItem_shared(heap, id, key, value) ==
    [i \in Ids |-> IF heap[i] = <<>> THEN <<>>
                   ELSE <<[heap[i][1] EXCEPT !.store[key] = <<value>>]>>]

MockStorageService_setItem(heap, id, key, value) ==
    [heap EXCEPT ![id] = <<[@[1] EXCEPT !.store[key] = <<value>>]>>]

MockStorageService_removeItem(heap, id, key) ==
    [heap EXCEPT ![id] = <<[@[1] EXCEPT !.store[key] = <<>>]>>]

MockStorageService_clear(heap, id) ==
    [heap EXCEPT ![id] = <<[@[1] EXCEPT !.store = EmptyMap]>>]

MockStorageService_getAllKeys(heap, id) ==
    {k \in Keys : heap[id][1].store[k] # <<>>}

MockStorageService_isAvailable(heap, id) == heap[id][1].available

MockStorageService_getType(heap, id) == heap[id][1].storageType

MockStorageService_setAvailable(heap, id, available) ==
    [heap EXCEPT ![id] = <<[@[1] EXCEPT !.available = available]>>]

MockStorageService_setStorageType(heap, id, type) ==
    [heap EXCEPT ![id] = <<[@[1] EXCEPT !.storageType = type]>>]

MockStorageService_reset(heap, id) ==
    [heap EXCEPT ![id] = <<NewMockStorageService>>]

----------------------------------------------------------------------------
(* MockStorageFactory *)

\* mutant: the lookup never finds an instance
MockStorageFactory_existing_none(instances, type) == <<>>

\* const existing = this.storageInstances.get(type)
MockStorageFactory_existing(instances, type) == instances[type]

\* mutant: the serialized lookup never finds an instance
MockStorageFactory_existingSerialized_none(instances, type) == <<>>

\* const existing = this.serializedInstances.get(type)
MockStorageFactory_existingSerialized(instances, type) == instances[type]

----------------------------------------------------------------------------
(* MockSerializedStorageService: the store holds the values themselves *)

\* mutant: returns value || null, which loses 0, "", false
MockSerialized_getObject_or(store, key) ==
    IF store[key] = <<>> THEN JSNull
    ELSE IF \/ store[key][1].t \in {"undefined", "null"}
            \/ store[key][1] \in {JSString(<<>>), JSNumber(<<"0">>),
                                  JSNumber(N_negZero), JSNumber(N_NaN),
                                  JSBoolean(T_false)}
         THEN JSNull
         ELSE store[key][1]

\* value !== undefined ? value : null
MockSerialized_getObject(store, key) ==
    IF store[key] = <<>> \/ store[key][1] = JSUndefined THEN JSNull
    ELSE store[key][1]

MockSerialized_setObject(store, key, value) == [store EXCEPT ![key] = <<value>>]

MockSerialized_removeObject(store, key) == [store EXCEPT ![key] = <<>>]

MockSerialized_hasObject(store, key) == store[key] # <<>>

MockSerialized_reset(store) == EmptyMap

----------------------------------------------------------------------------
(* The documented MemoryStorage and JsonStorageService. What setItem is    *)
(* handed is <<text>>, or <<>> for undefined.                              *)

MemoryStorage_setItem(data, key, value) == [data EXCEPT ![key] = <<value>>]

\* this.data.get(key) || null: <<text>>, or <<>> for null
MemoryStorage_getItem(data, key) ==
    IF data[key] = <<>> \/ data[key][1] = <<>> \/ data[key][1] = << <<>> >>
    THEN <<>>
    ELSE data[key][1]

MemoryStorage_removeItem(data, key) == [data EXCEPT ![key] = <<>>]

\* JavaScript truthiness of a value
Truthy(value) ==
    /\ value.t \notin {"undefined", "null"}
    /\ value \notin {JSString(<<>>), JSNumber(<<"0">>), JSNumber(N_negZero),
                     JSNumber(N_NaN), JSBoolean(T_false)}

\* defaultValue || null, defaultValue being <<>> when the argument is absent
DefaultOrNull(defaultValue) ==
    IF defaultValue # <<>> /\ Truthy(defaultValue[1]) THEN defaultValue[1]
    ELSE JSNull

\* storage.setItem(key, JSON.stringify(value)); no value of the model makes
\* JSON.stringify throw
JsonStorageService_setObject(data, key, value) ==
    MemoryStorage_setItem(data, key, JSON_stringify(value))

\* mutant: a text that does not parse is handed back as it is
JsonStorageService_getObject_raw(data, key, defaultValue) ==
    LET serialized == MemoryStorage_getItem(data, key)
    IN  IF serialized = <<>> THEN DefaultOrNull(defaultValue)
        ELSE LET parsed == JSON_parse(serialized[1])
             IN  IF parsed = <<>> THEN JSString(serialized[1]) ELSE parsed[1]

\* the catch block answers like the serialized === null branch
JsonStorageService_getObject(data, key, defaultValue) ==
    LET serialized == MemoryStorage_getItem(data, key)
    IN  IF serialized = <<>> THEN DefaultOrNull(defaultValue)
        ELSE LET parsed == JSON_parse(serialized[1])
             IN  IF parsed = <<>> THEN DefaultOrNull(defaultValue)
                 ELSE parsed[1]

JsonStorageService_setString(data, key, value) ==
    MemoryStorage_setItem(data, key, <<value>>)

JsonStorageService_removeItem(data, key) == MemoryStorage_removeItem(data, key)

JsonStorageService_hasItem(data, key) == MemoryStorage_getItem(data, key) # <<>>

----------------------------------------------------------------------------
(* MockStorageProvider over a MockPlatformStorage or a                     *)
(* MockAdvancedPlatformStorage; advanced is 'hasItem' in this.storage      *)

\* mutant: the ttl is never handed on
MockStorageProvider_set_plain(advanced, store, key, value, ttl, t) ==
    IF advanced THEN MockAdvanced_setItem(store, key, value, <<>>, t)
    ELSE MockPlatformStorage_setItem(store, key, value)

MockStorageProvider_set(advanced, store, key, value, ttl, t) ==
    IF advanced /\ ttl # <<>>
    THEN MockAdvanced_setItem(store, key, value, ttl, t)
    ELSE IF advanced THEN MockAdvanced_setItem(store, key, value, <<>>, t)
    ELSE MockPlatformStorage_setItem(store, key, value)

\* this.storage.getItem(key)
MockStorageProvider_get(advanced, store, key, t) ==
    IF advanced THEN MockAdvanced_getItem(store, key, t)
    ELSE MockPlatformStorage_getItem(store, key)

MockStorageProvider_remove(advanced, store, key) ==
    IF advanced THEN MockAdvanced_removeItem(store, key)
    ELSE MockPlatformStorage_removeItem(store, key)

----------------------------------------------------------------------------
(* The documented static StorageFactory. e is the runtime: e.navigator is  *)
(* navigator.product, or "undefined" without a navigator; e.window tells   *)
(* whether window is defined; e.localStorage and e.sessionStorage whether  *)
(* window has them. The outcome is the class built, or the error thrown.   *)

Built(class) == [ret |-> <<class>>, error |-> <<>>]
Thrown(message) == [ret |-> <<>>, error |-> <<message>>]

StorageFactory_createStorage(e, type) ==
    CASE type = "localStorage" ->
             IF e.window /\ e.localStorage THEN Built("WebLocalStorage")
             ELSE Thrown("localStorage not available")
      [] type = "sessionStorage" ->
             IF e.window /\ e.sessionStorage THEN Built("WebSessionStorage")
             ELSE Thrown("sessionStorage not available")
      [] type = "asyncStorage" -> Built("ReactNativeAsyncStorage")
      [] type = "memory" -> Built("MemoryStorage")
      [] OTHER -> Thrown("Unsupported storage type")

StorageFactory_createPlatformStorage(e) ==
    IF e.navigator = "ReactNative"
    THEN StorageFactory_createStorage(e, "asyncStorage")
    ELSE IF e.window /\ e.localStorage
    THEN StorageFactory_createStorage(e, "localStorage")
    ELSE IF e.window /\ e.sessionStorage
    THEN StorageFactory_createStorage(e, "sessionStorage")
    ELSE StorageFactory_createStorage(e, "memory")

----------------------------------------------------------------------------
(* The calls.  Every call records itself in last; a write records itself   *)
(* in written, and a call that removes a key clears the key's record.      *)

\* on: the class called; arg: the key or pattern given (Optional); ret: the value
\* returned (<<>> for void); removed: the keys whose stored entry the call
\* deleted, or replaced by a new one
Call(on, op, arg, ret) ==
    [on |-> on, op |-> op, arg |-> arg, ret |-> ret, removed |-> {},
     error |-> <<>>]

\* a call that raised: error holds the message
Raise(on, op, arg, message) ==
    [on |-> on, op |-> op, arg |-> arg, ret |-> <<>>, removed |-> {},
     error |-> <<message>>]

Removed(before, after) == {k \in Keys : before[k] # <<>> /\ after[k] = <<>>}

Deleting(on, op, arg, before, after) ==
    [on |-> on, op |-> op, arg |-> arg, ret |-> <<>>,
     removed |-> Removed(before, after), error |-> <<>>]

\* setItem with a TTL argument: the key is listed when the call put a new
\* entry in the place of one that was stored
Replacing(on, key, before, tookEffect) ==
    [on |-> on, op |-> "setItem", arg |-> <<key>>, ret |-> <<>>,
     removed |-> IF tookEffect /\ before[key] # <<>> THEN {key} ELSE {},
     error |-> <<>>]

Write(value, ttl, via) == <<[value |-> value, ttl |-> ttl, at |-> now, via |-> via]>>

\* the records of the keys a call removed from the store are cleared
Forget(before, after) ==
    [k \in Keys |-> IF before[k] # <<>> /\ after[k] = <<>> THEN <<>> ELSE written[k]]

\* a runtime with neither navigator nor window
E_bare == [navigator |-> "undefined", window |-> FALSE, localStorage |-> FALSE,
           sessionStorage |-> FALSE]

Singletons == {"info", "network", "analytics"}

\* defaultResponse = { data: {}, status: 200, ok: true }
R_default == [data |-> "{}", status |-> <<200>>, ok |-> <<TRUE>>, error |-> <<>>]

\* responses a test configures: { data: 'users' } and { error: new Error('down') }
R_users == [data |-> "users", status |-> <<>>, ok |-> <<>>, error |-> <<>>]
R_error == [data |-> "", status |-> <<>>, ok |-> <<>>, error |-> <<"down">>]
MockHttpResponses == {R_users, R_error}

U_test == "/api/test"
Urls == {U_test}
Methods == {"GET", "POST", "PUT", "DELETE", "PATCH"}

\* the keys of mockResponses: url is <<url>>, `${method}:${url}` is <<method, url>>
MockKey(url, method) == IF method = <<>> THEN <<url>> ELSE <<method[1], url>>
MockKeys == {MockKey(u, m) : u \in Urls, m \in {<<>>} \cup {<<x>> : x \in Methods}}

InitSingletons ==
    /\ infoServiceInstance = <<>>
    /\ networkServiceInstance = <<>>
    /\ analyticsService = <<>>
    /\ installed = [x \in Singletons |-> <<>>]
    /\ beforeReset = [x \in Singletons |-> <<>>]

InitNetworkClient ==
    /\ offline = FALSE
    /\ errorRate = 0
    /\ mockResponses = [k \in MockKeys |-> <<>>]
    /\ defaultResponse = R_default
    /\ requests = {}
    /\ cameOnline = FALSE

InitStorage ==
    /\ now = 2
    /\ mockStore = EmptyMap
    /\ advStore = EmptyMap
    /\ sessionStorage = EmptyMap
    /\ storageThrows = FALSE
    /\ written = EmptyMap
    /\ last = Call("none", "none", <<>>, <<>>)
    /\ defaultStorageType = "memory"
    /\ storageInstances = [t \in TypeKeys |-> <<>>]
    /\ serializedInstances = [t \in TypeKeys |-> <<>>]
    /\ services = [i \in Ids |-> <<>>]
    /\ nextId = 1
    /\ objectStore = EmptyMap
    /\ memoryData = EmptyMap
    /\ firstCreated = [t \in TypeKeys |-> <<>>]

\* the callers that race on setItem
Racers == {"first", "second"}

InitRacers ==
    racers = [c \in Racers |-> [pc |-> "idle", key |-> <<>>, value |-> "", rank |-> 0]]

\* the operations a component passes to executeAsync or to execute
Operations == {"load", "save", "refresh", "remove"}

\* useState(false), useState(null)
InitHook ==
    /\ isLoading = FALSE
    /\ error = <<>>
    /\ operations = [o \in Operations |-> "idle"]

\* key argument of withCache
CacheKeys == {"users", "posts"}

\* the async functions that call withCache
CacheCallers == {"list", "detail"}

\* const cache = new Map()
InitCache ==
    /\ cache = [k \in CacheKeys |-> <<>>]
    /\ cacheCalls = [c \in CacheCallers |-> <<>>]
    /\ obtained = [k \in CacheKeys |-> <<>>]

\* key argument of debounceAsync
DebounceKeys == {"search", "resize"}

\* the calls of debounced functions a run makes; a call's arguments are its own
DebounceCalls == {"first", "second", "third"}

\* a call not made yet
NotCalled == [state |-> "unused", key |-> "", due |-> 0, superseded |-> FALSE,
              threw |-> FALSE, value |-> <<>>]

\* const debounceMap = new Map()
InitDebounce ==
    /\ debounceMap = [k \in DebounceKeys |-> <<>>]
    /\ timers = [c \in DebounceCalls |-> NotCalled]

\* private history: string[] = ['/']; private historyIndex: number = 0
InitNavigationService ==
    /\ history = <<"/">>
    /\ historyIndex = 0

InitAsync ==
    /\ InitRacers
    /\ InitHook
    /\ InitCache
    /\ InitDebounce
    /\ InitNavigationService

InitCommon ==
    /\ InitStorage
    /\ env = E_bare
    /\ InitSingletons
    /\ InitNetworkClient
    /\ InitAsync

Init == wired \in Backends /\ InitCommon

\* time passes
Tick ==
    /\ now < MaxTime
    /\ now' = now + 1
    /\ UNCHANGED <<wired, written, last, backendVars, factoryVars, serializedVars, appVars>>

MockPlatformStorageSetItem(key, value) ==
    /\ wired = "MockPlatformStorage"
    /\ mockStore' = MockPlatformStorage_setItem(mockStore, key, value)
    /\ written' = [written EXCEPT ![key] = Write(value, <<>>, "MockPlatformStorage")]
    /\ last' = Call("MockPlatformStorage", "setItem", <<key>>, <<>>)
    /\ UNCHANGED <<wired, now, advStore, sessionStorage, storageThrows,
                   factoryVars, serializedVars, appVars>>

MockPlatformStorageGetItem(key) ==
    /\ wired = "MockPlatformStorage"
    /\ last' = Call("MockPlatformStorage", "getItem", <<key>>, MockPlatformStorage_getItem(mockStore, key))
    /\ UNCHANGED <<wired, now, mockStore, advStore, sessionStorage, storageThrows,
                   written,
                   factoryVars, serializedVars, appVars>>

MockPlatformStorageRemoveItem(key) ==
    /\ wired = "MockPlatformStorage"
    /\ mockStore' = MockPlatformStorage_removeItem(mockStore, key)
    /\ written' = [written EXCEPT ![key] = <<>>]
    /\ last' = Deleting("MockPlatformStorage", "removeItem", <<key>>,
                        mockStore, mockStore')
    /\ UNCHANGED <<wired, now, advStore, sessionStorage, storageThrows,
                   factoryVars, serializedVars, appVars>>

MockPlatformStorageClear ==
    /\ wired = "MockPlatformStorage"
    /\ mockStore' = EmptyMap
    /\ written' = EmptyMap
    /\ last' = Deleting("MockPlatformStorage", "clear", <<>>,
                        mockStore, mockStore')
    /\ UNCHANGED <<wired, now, advStore, sessionStorage, storageThrows,
                   factoryVars, serializedVars, appVars>>

MockPlatformStorageGetAllKeys ==
    /\ wired = "MockPlatformStorage"
    /\ last' = Call("MockPlatformStorage", "getAllKeys", <<>>, MockPlatformStorage_getAllKeys(mockStore))
    /\ UNCHANGED <<wired, now, mockStore, advStore, sessionStorage, storageThrows,
                   written,
                   factoryVars, serializedVars, appVars>>

MockAdvancedSetItem(key, value, ttl) ==
    /\ wired = "MockAdvancedPlatformStorage"
    /\ advStore' = MockAdvanced_setItem(advStore, key, value, ttl, now)
    /\ written' = [written EXCEPT
                     ![key] = Write(value, ttl, "MockAdvancedPlatformStorage")]
    /\ last' = Replacing("MockAdvancedPlatformStorage", key, advStore, TRUE)
    /\ UNCHANGED <<wired, now, mockStore, sessionStorage, storageThrows,
                   factoryVars, serializedVars, appVars>>

MockAdvancedGetItem(key) ==
    /\ wired = "MockAdvancedPlatformStorage"
    /\ advStore' = MockAdvanced_touch(advStore, key, now)
    /\ last' = Call("MockAdvancedPlatformStorage", "getItem", <<key>>, MockAdvanced_getItem(advStore, key, now))
    /\ UNCHANGED <<wired, now, mockStore, sessionStorage, storageThrows, written,
                   factoryVars, serializedVars, appVars>>

MockAdvancedRemoveItem(key) ==
    /\ wired = "MockAdvancedPlatformStorage"
    /\ advStore' = MockAdvanced_removeItem(advStore, key)
    /\ written' = [written EXCEPT ![key] = <<>>]
    /\ last' = Deleting("MockAdvancedPlatformStorage", "removeItem", <<key>>,
                        advStore, advStore')
    /\ UNCHANGED <<wired, now, mockStore, sessionStorage, storageThrows,
                   factoryVars, serializedVars, appVars>>

MockAdvancedClear ==
    /\ wired = "MockAdvancedPlatformStorage"
    /\ advStore' = EmptyMap
    /\ written' = EmptyMap
    /\ last' = Deleting("MockAdvancedPlatformStorage", "clear", <<>>,
                        advStore, advStore')
    /\ UNCHANGED <<wired, now, mockStore, sessionStorage, storageThrows,
                   factoryVars, serializedVars, appVars>>

MockAdvancedGetAllKeys ==
    /\ wired = "MockAdvancedPlatformStorage"
    /\ last' = Call("MockAdvancedPlatformStorage", "getAllKeys", <<>>, MockAdvanced_getAllKeys(advStore, now))
    /\ UNCHANGED <<wired, now, mockStore, advStore, sessionStorage, storageThrows,
                   written,
                   factoryVars, serializedVars, appVars>>

MockAdvancedHasItem(key) ==
    /\ wired = "MockAdvancedPlatformStorage"
    /\ advStore' = MockAdvanced_touch(advStore, key, now)
    /\ last' = Call("MockAdvancedPlatformStorage", "hasItem", <<key>>, MockAdvanced_hasItem(advStore, key, now))
    /\ UNCHANGED <<wired, now, mockStore, sessionStorage, storageThrows, written,
                   factoryVars, serializedVars, appVars>>

MockAdvancedClearPattern(pattern) ==
    /\ wired = "MockAdvancedPlatformStorage"
    /\ advStore' = MockAdvanced_clearPattern(advStore, pattern)
    /\ written' = Forget(advStore, advStore')
    /\ last' = Deleting("MockAdvancedPlatformStorage", "clearPattern", pattern,
                        advStore, advStore')
    /\ UNCHANGED <<wired, now, mockStore, sessionStorage, storageThrows,
                   factoryVars, serializedVars, appVars>>

\* test helper: rewrites the entry, so the key's write record no longer describes it
MockAdvancedExpireItem(key) ==
    /\ wired = "MockAdvancedPlatformStorage"
    /\ advStore[key] # <<>>
    /\ advStore' = MockAdvanced_expireItem(advStore, key)
    /\ written' = [written EXCEPT ![key] = <<>>]
    /\ last' = Call("MockAdvancedPlatformStorage", "expireItem", <<key>>, <<>>)
    /\ UNCHANGED <<wired, now, mockStore, sessionStorage, storageThrows,
                   factoryVars, serializedVars, appVars>>

WebStorageSetItem(key, value) ==
    /\ wired = "sessionStorage"
    /\ sessionStorage' =
           WebStorage_setItem(sessionStorage, key, PlainText(value), storageThrows)
    /\ written' = IF storageThrows THEN written
                  ELSE [written EXCEPT ![key] = Write(value, <<>>, "WebStorage")]
    /\ last' = Call("WebStorage", "setItem", <<key>>, <<>>)
    /\ UNCHANGED <<wired, now, mockStore, advStore, storageThrows,
                   factoryVars, serializedVars, appVars>>

WebStorageGetItem(key) ==
    /\ wired = "sessionStorage"
    /\ last' = Call("WebStorage", "getItem", <<key>>,
                    WebStorage_getItem(sessionStorage, key, storageThrows))
    /\ UNCHANGED <<wired, now, mockStore, advStore, sessionStorage, storageThrows,
                   written,
                   factoryVars, serializedVars, appVars>>

WebStorageRemoveItem(key) ==
    /\ wired = "sessionStorage"
    /\ sessionStorage' = WebStorage_removeItem(sessionStorage, key, storageThrows)
    /\ written' = Forget(sessionStorage, sessionStorage')
    /\ last' = Deleting("WebStorage", "removeItem", <<key>>,
                        sessionStorage, sessionStorage')
    /\ UNCHANGED <<wired, now, mockStore, advStore, storageThrows,
                   factoryVars, serializedVars, appVars>>

WebStorageClear ==
    /\ wired = "sessionStorage"
    /\ sessionStorage' = WebStorage_clear(sessionStorage, storageThrows)
    /\ written' = Forget(sessionStorage, sessionStorage')
    /\ last' = Deleting("WebStorage", "clear", <<>>,
                        sessionStorage, sessionStorage')
    /\ UNCHANGED <<wired, now, mockStore, advStore, storageThrows,
                   factoryVars, serializedVars, appVars>>

WebStorageGetAllKeys ==
    /\ wired = "sessionStorage"
    /\ last' = Call("WebStorage", "getAllKeys", <<>>,
                    WebStorage_getAllKeys(sessionStorage, storageThrows))
    /\ UNCHANGED <<wired, now, mockStore, advStore, sessionStorage, storageThrows,
                   written,
                   factoryVars, serializedVars, appVars>>

AdvancedWebSetItem(key, value, ttl) ==
    /\ wired = "sessionStorage"
    /\ sessionStorage' =
           AdvancedWeb_setItem(sessionStorage, key, value, ttl, now, storageThrows)
    /\ written' = IF storageThrows THEN written
                  ELSE [written EXCEPT
                          ![key] = Write(value, ttl, "AdvancedWebStorage")]
    /\ last' = Replacing("AdvancedWebStorage", key, sessionStorage, ~storageThrows)
    /\ UNCHANGED <<wired, now, mockStore, advStore, storageThrows,
                   factoryVars, serializedVars, appVars>>

AdvancedWebGetItem(key) ==
    /\ wired = "sessionStorage"
    /\ sessionStorage' = AdvancedWeb_touch(sessionStorage, key, now, storageThrows)
    /\ last' = Call("AdvancedWebStorage", "getItem", <<key>>,
                    AdvancedWeb_getItem(sessionStorage, key, now, storageThrows))
    /\ UNCHANGED <<wired, now, mockStore, advStore, storageThrows, written,
                   factoryVars, serializedVars, appVars>>

AdvancedWebRemoveItem(key) ==
    /\ wired = "sessionStorage"
    /\ sessionStorage' = AdvancedWeb_removeItem(sessionStorage, key, storageThrows)
    /\ written' = Forget(sessionStorage, sessionStorage')
    /\ last' = Deleting("AdvancedWebStorage", "removeItem", <<key>>,
                        sessionStorage, sessionStorage')
    /\ UNCHANGED <<wired, now, mockStore, advStore, storageThrows,
                   factoryVars, serializedVars, appVars>>

AdvancedWebClear ==
    /\ wired = "sessionStorage"
    /\ sessionStorage' = AdvancedWeb_clear(sessionStorage, storageThrows)
    /\ written' = Forget(sessionStorage, sessionStorage')
    /\ last' = Deleting("AdvancedWebStorage", "clear", <<>>,
                        sessionStorage, sessionStorage')
    /\ UNCHANGED <<wired, now, mockStore, advStore, storageThrows,
                   factoryVars, serializedVars, appVars>>

AdvancedWebHasItem(key) ==
    /\ wired = "sessionStorage"
    /\ last' = Call("AdvancedWebStorage", "hasItem", <<key>>,
                    AdvancedWeb_hasItem(sessionStorage, key, storageThrows))
    /\ UNCHANGED <<wired, now, mockStore, advStore, sessionStorage, storageThrows,
                   written,
                   factoryVars, serializedVars, appVars>>

AdvancedWebGetAllKeys ==
    /\ wired = "sessionStorage"
    /\ last' = Call("AdvancedWebStorage", "getAllKeys", <<>>,
                    AdvancedWeb_getAllKeys(sessionStorage, storageThrows))
    /\ UNCHANGED <<wired, now, mockStore, advStore, sessionStorage, storageThrows,
                   written,
                   factoryVars, serializedVars, appVars>>

AdvancedWebClearPattern(pattern) ==
    /\ wired = "sessionStorage"
    /\ sessionStorage' = AdvancedWeb_clearPattern(sessionStorage, pattern, storageThrows)
    /\ written' = Forget(sessionStorage, sessionStorage')
    /\ last' = Deleting("AdvancedWebStorage", "clearPattern", pattern,
                        sessionStorage, sessionStorage')
    /\ UNCHANGED <<wired, now, mockStore, advStore, storageThrows,
                   factoryVars, serializedVars, appVars>>

\* the calls on WebStorage and AdvancedWebStorage
NextWeb ==
    \/ \E k \in Keys, v \in Values : WebStorageSetItem(k, v)
    \/ \E k \in Keys : WebStorageGetItem(k)
    \/ \E k \in Keys : WebStorageRemoveItem(k)
    \/ WebStorageClear
    \/ WebStorageGetAllKeys
    \/ \E k \in Keys, v \in Values, ttl \in Ttls : AdvancedWebSetItem(k, v, ttl)
    \/ \E k \in Keys : AdvancedWebGetItem(k)
    \/ \E k \in Keys : AdvancedWebRemoveItem(k)
    \/ AdvancedWebClear
    \/ \E k \in Keys : AdvancedWebHasItem(k)
    \/ AdvancedWebGetAllKeys
    \/ \E p \in PatternArgs : AdvancedWebClearPattern(p)

NextBackends ==
    \/ Tick
    \/ \E k \in Keys, v \in Values : MockPlatformStorageSetItem(k, v)
    \/ \E k \in Keys : MockPlatformStorageGetItem(k)
    \/ \E k \in Keys : MockPlatformStorageRemoveItem(k)
    \/ MockPlatformStorageClear
    \/ MockPlatformStorageGetAllKeys
    \/ \E k \in Keys, v \in Values, ttl \in Ttls : MockAdvancedSetItem(k, v, ttl)
    \/ \E k \in Keys : MockAdvancedGetItem(k)
    \/ \E k \in Keys : MockAdvancedRemoveItem(k)
    \/ MockAdvancedClear
    \/ MockAdvancedGetAllKeys
    \/ \E k \in Keys : MockAdvancedHasItem(k)
    \/ \E p \in PatternArgs : MockAdvancedClearPattern(p)
    \/ \E k \in Keys : MockAdvancedExpireItem(k)
    \/ NextWeb

SpecBackends == Init /\ [][NextBackends]_vars

(* sessionStorage starts or stops throwing: quota exceeded, access denied *)

SessionStorageFails ==
    /\ wired = "sessionStorage"
    /\ ~storageThrows
    /\ storageThrows' = TRUE
    /\ UNCHANGED <<wired, now, written, last, mockStore, advStore, sessionStorage,
                   factoryVars, serializedVars, appVars>>

SessionStorageRecovers ==
    /\ wired = "sessionStorage"
    /\ storageThrows
    /\ storageThrows' = FALSE
    /\ UNCHANGED <<wired, now, written, last, mockStore, advStore, sessionStorage,
                   factoryVars, serializedVars, appVars>>

InitWeb == wired = "sessionStorage" /\ InitCommon

NextWebFaults == Tick \/ NextWeb \/ SessionStorageFails \/ SessionStorageRecovers

SpecWebFaults == InitWeb /\ [][NextWebFaults]_vars

----------------------------------------------------------------------------
(* MockStorageProvider *)

P_basic == "MockStorageProvider(MockPlatformStorage)"
P_advanced == "MockStorageProvider(MockAdvancedPlatformStorage)"
Providers == {P_basic, P_advanced}

InitProvider == wired \in Providers /\ InitCommon

\* the store of the wrapped backend
Wrapped == IF wired = P_advanced THEN advStore ELSE mockStore

\* the wrapped backend's store becomes store2
WrappedBecomes(store2) ==
    IF wired = P_advanced THEN advStore' = store2 /\ UNCHANGED mockStore
    ELSE mockStore' = store2 /\ UNCHANGED advStore

ProviderSet(key, value, ttl) ==
    /\ wired \in Providers
    /\ WrappedBecomes(MockStorageProvider_set(wired = P_advanced, Wrapped, key,
                                              value, ttl, now))
    /\ written' = [written EXCEPT ![key] = Write(value, ttl, "MockStorageProvider")]
    /\ last' = Call("MockStorageProvider", "set", <<key>>, <<>>)
    /\ UNCHANGED <<wired, now, sessionStorage, storageThrows, factoryVars,
                   serializedVars, appVars>>

ProviderGet(key) ==
    /\ wired \in Providers
    /\ WrappedBecomes(IF wired = P_advanced
                      THEN MockAdvanced_touch(advStore, key, now) ELSE mockStore)
    /\ last' = Call("MockStorageProvider", "get", <<key>>,
                    MockStorageProvider_get(wired = P_advanced, Wrapped, key, now))
    /\ UNCHANGED <<wired, now, written, sessionStorage, storageThrows,
                   factoryVars, serializedVars, appVars>>

ProviderRemove(key) ==
    /\ wired \in Providers
    /\ WrappedBecomes(MockStorageProvider_remove(wired = P_advanced, Wrapped, key))
    /\ written' = [written EXCEPT ![key] = <<>>]
    /\ last' = Call("MockStorageProvider", "remove", <<key>>, <<>>)
    /\ UNCHANGED <<wired, now, sessionStorage, storageThrows, factoryVars,
                   serializedVars, appVars>>

ProviderClear ==
    /\ wired \in Providers
    /\ WrappedBecomes(EmptyMap)
    /\ written' = EmptyMap
    /\ last' = Call("MockStorageProvider", "clear", <<>>, <<>>)
    /\ UNCHANGED <<wired, now, sessionStorage, storageThrows, factoryVars,
                   serializedVars, appVars>>

NextProvider ==
    \/ Tick
    \/ \E k \in Keys, v \in Values, ttl \in Ttls : ProviderSet(k, v, ttl)
    \/ \E k \in Keys : ProviderGet(k)
    \/ \E k \in Keys : ProviderRemove(k)
    \/ ProviderClear

SpecProvider == InitProvider /\ [][NextProvider]_vars

----------------------------------------------------------------------------
(* MockStorageFactory and the MockStorageService objects it hands out.     *)
(* reset() drops the factory's references; the objects it referred to are  *)
(* no longer tracked.                                                      *)

InitFactory == wired \in FactoryCallers /\ InitCommon

\* code that asks which storage type suits the runtime it finds itself in
PlatformCallers == {"platform detection"}

FactoryCreateStorage(type) ==
    /\ wired \in FactoryCallers
    /\ LET existing == MockStorageFactory_existing(storageInstances, type)
       IN  IF existing # <<>>
           THEN /\ last' = Call("MockStorageFactory", "createStorage", <<type>>,
                                existing)
                /\ firstCreated' = [firstCreated EXCEPT
                                      ![type] = IF @ = <<>> THEN existing ELSE @]
                /\ UNCHANGED <<storageInstances, services, nextId>>
           ELSE /\ nextId <= MaxInst
                /\ services' = MockStorageService_setStorageType(
                       [services EXCEPT ![nextId] = <<NewMockStorageService>>],
                       nextId, type)
                /\ storageInstances' = [storageInstances EXCEPT ![type] = <<nextId>>]
                /\ nextId' = nextId + 1
                /\ last' = Call("MockStorageFactory", "createStorage", <<type>>,
                                <<nextId>>)
                /\ firstCreated' = [firstCreated EXCEPT
                                      ![type] = IF @ = <<>> THEN <<nextId>> ELSE @]
    /\ UNCHANGED <<wired, now, written, backendVars, serializedVars, defaultStorageType,
                   serializedInstances, appVars>>

FactoryCreateSerializedStorage(type) ==
    /\ wired \in FactoryCallers
    /\ LET existing == MockStorageFactory_existingSerialized(serializedInstances, type)
       IN  IF existing # <<>>
           THEN /\ last' = Call("MockStorageFactory", "createSerializedStorage",
                                <<type>>, existing)
                /\ UNCHANGED <<serializedInstances, nextId>>
           ELSE /\ nextId <= MaxInst
                /\ serializedInstances' =
                       [serializedInstances EXCEPT ![type] = <<nextId>>]
                /\ nextId' = nextId + 1
                /\ last' = Call("MockStorageFactory", "createSerializedStorage",
                                <<type>>, <<nextId>>)
    /\ UNCHANGED <<wired, now, written, backendVars, serializedVars, defaultStorageType,
                   storageInstances, services, firstCreated, appVars>>

FactoryGetDefaultStorageType ==
    /\ wired \in FactoryCallers \cup PlatformCallers
    /\ last' = Call("MockStorageFactory", "getDefaultStorageType", <<>>,
                    <<defaultStorageType>>)
    /\ UNCHANGED <<wired, now, written, backendVars, serializedVars, factoryVars, appVars>>

FactorySetDefaultStorageType(type) ==
    /\ wired \in FactoryCallers \cup PlatformCallers
    /\ defaultStorageType' = type
    /\ last' = Call("MockStorageFactory", "setDefaultStorageType", <<type>>, <<>>)
    /\ UNCHANGED <<wired, now, written, backendVars, serializedVars, storageInstances,
                   serializedInstances, services, nextId, firstCreated, appVars>>

FactoryReset ==
    /\ wired \in FactoryCallers
    /\ storageInstances' = [t \in TypeKeys |-> <<>>]
    /\ serializedInstances' = [t \in TypeKeys |-> <<>>]
    /\ defaultStorageType' = "memory"
    /\ services' = [i \in Ids |-> <<>>]
    /\ firstCreated' = [t \in TypeKeys |-> <<>>]
    /\ last' = Call("MockStorageFactory", "reset", <<>>, <<>>)
    /\ UNCHANGED <<wired, now, written, backendVars, serializedVars, nextId, appVars>>

\* a call on the MockStorageService object id that leaves the heap as heap2
ServiceCall(id, op, arg, ret, heap2) ==
    /\ wired \in FactoryCallers
    /\ services[id] # <<>>
    /\ services' = heap2
    /\ last' = Call("MockStorageService", op, <<id>> \o arg, ret)
    /\ UNCHANGED <<wired, now, written, backendVars, serializedVars, defaultStorageType,
                   storageInstances, serializedInstances, nextId, firstCreated, appVars>>

ServiceGetItem(id, key) ==
    ServiceCall(id, "getItem", <<key>>,
                MockStorageService_getItem(services, id, key), services)

ServiceSetItem(id, key, value) ==
    ServiceCall(id, "setItem", <<key>>, <<>>,
                MockStorageService_setItem(services, id, key, value))

ServiceRemoveItem(id, key) ==
    ServiceCall(id, "removeItem", <<key>>, <<>>,
                MockStorageService_removeItem(services, id, key))

ServiceClear(id) ==
    ServiceCall(id, "clear", <<>>, <<>>, MockStorageService_clear(services, id))

ServiceGetAllKeys(id) ==
    ServiceCall(id, "getAllKeys", <<>>,
                MockStorageService_getAllKeys(services, id), services)

ServiceIsAvailable(id) ==
    ServiceCall(id, "isAvailable", <<>>,
                MockStorageService_isAvailable(services, id), services)

ServiceGetType(id) ==
    ServiceCall(id, "getType", <<>>,
                MockStorageService_getType(services, id), services)

ServiceSetAvailable(id, available) ==
    ServiceCall(id, "setAvailable", <<available>>, <<>>,
                MockStorageService_setAvailable(services, id, available))

ServiceSetStorageType(id, type) ==
    ServiceCall(id, "setStorageType", <<type>>, <<>>,
                MockStorageService_setStorageType(services, id, type))

ServiceReset(id) ==
    ServiceCall(id, "reset", <<>>, <<>>, MockStorageService_reset(services, id))

\* the keys the service calls are made with
ServiceKeys == {K_other}
\* the values setItem is called with on a service
ServiceValues == {"x"}

NextFactory ==
    \/ \E t \in TypesAsked : FactoryCreateStorage(t)
    \/ \E t \in TypesAsked : FactoryCreateSerializedStorage(t)
    \/ FactoryGetDefaultStorageType
    \/ \E t \in TypesUsed : FactorySetDefaultStorageType(t)
    \/ FactoryReset
    \/ \E i \in Ids, k \in ServiceKeys : ServiceGetItem(i, k)
    \/ \E i \in Ids, k \in ServiceKeys, v \in ServiceValues : ServiceSetItem(i, k, v)
    \/ \E i \in Ids, k \in ServiceKeys : ServiceRemoveItem(i, k)
    \/ \E i \in Ids : ServiceClear(i)
    \/ \E i \in Ids : ServiceGetAllKeys(i)
    \/ \E i \in Ids : ServiceIsAvailable(i)
    \/ \E i \in Ids : ServiceGetType(i)
    \/ \E i \in Ids, b \in BOOLEAN : ServiceSetAvailable(i, b)
    \/ \E i \in Ids, t \in TypesUsed : ServiceSetStorageType(i, t)
    \/ \E i \in Ids : ServiceReset(i)

SpecFactory == InitFactory /\ [][NextFactory]_vars

----------------------------------------------------------------------------
(* MockSerializedStorageService, and JsonStorageService over MemoryStorage *)

L_a == <<"a">>
L_b == <<"b">>

Leaves ==
    { JSString(<<>>), JSString(L_a), JSString(<<Quote>>),
      JSNumber(<<"0">>), JSNumber(<<"1">>), JSNumber(<<"-", "1">>),
      JSNumber(N_negZero), JSNumber(N_NaN),
      JSBoolean(T_true), JSBoolean(T_false), JSNull, JSUndefined }

Nested ==
    { JSArray(<<JSNumber(<<"0">>), JSString(L_a)>>),
      JSObject(<<L_a, L_b>>, <<JSBoolean(T_false), JSNull>>),
      JSObject(<<L_a, L_b>>, <<JSNumber(<<"1">>), JSUndefined>>),
      JSArray(<<JSArray(<<>>), JSObject(<<L_a>>, <<JSArray(<<JSNull>>)>>)>>),
      JSObject(<<L_a>>, <<JSObject(<<L_b>>, <<JSString(<<Quote>>)>>)>>),
      JSArray(<<JSArray(<<JSNumber(N_NaN)>>)>>) }

\* the values setObject is called with
JSValues ==
    Leaves \cup {JSArray(<<>>), JSObject(<<>>, <<>>)}
           \cup {JSArray(<<x>>) : x \in Leaves}
           \cup {JSObject(<<L_a>>, <<x>>) : x \in Leaves}
           \cup Nested

\* the defaultValue arguments of getObject: absent, truthy, falsy
Defaults == {<<>>, <<JSNumber(<<"1">>)>>, <<JSBoolean(T_false)>>}

\* the texts setString is called with: not JSON, JSON, empty, cut-off JSON
RawTextCutOff == <<"{", Quote, "a", Quote, ":">>
RawTexts == {L_a, <<"1">>, <<>>, RawTextCutOff}

SerializedClasses == {"MockSerializedStorageService", "JsonStorageService"}

InitSerialized == wired \in SerializedClasses /\ InitCommon

MockSerializedSetObject(key, value) ==
    /\ wired = "MockSerializedStorageService"
    /\ objectStore' = MockSerialized_setObject(objectStore, key, value)
    /\ written' = [written EXCEPT ![key] = Write(value, <<>>, "setObject")]
    /\ last' = Call(wired, "setObject", <<key>>, <<>>)
    /\ UNCHANGED <<wired, now, backendVars, factoryVars, memoryData, appVars>>

MockSerializedGetObject(key) ==
    /\ wired = "MockSerializedStorageService"
    /\ last' = Call(wired, "getObject", <<key>>,
                    <<MockSerialized_getObject(objectStore, key)>>)
    /\ UNCHANGED <<wired, now, written, backendVars, factoryVars, serializedVars, appVars>>

MockSerializedRemoveObject(key) ==
    /\ wired = "MockSerializedStorageService"
    /\ objectStore' = MockSerialized_removeObject(objectStore, key)
    /\ written' = [written EXCEPT ![key] = <<>>]
    /\ last' = Call(wired, "removeObject", <<key>>, <<>>)
    /\ UNCHANGED <<wired, now, backendVars, factoryVars, memoryData, appVars>>

MockSerializedHasObject(key) ==
    /\ wired = "MockSerializedStorageService"
    /\ last' = Call(wired, "hasObject", <<key>>,
                    <<MockSerialized_hasObject(objectStore, key)>>)
    /\ UNCHANGED <<wired, now, written, backendVars, factoryVars, serializedVars, appVars>>

MockSerializedReset ==
    /\ wired = "MockSerializedStorageService"
    /\ objectStore' = MockSerialized_reset(objectStore)
    /\ written' = EmptyMap
    /\ last' = Call(wired, "reset", <<>>, <<>>)
    /\ UNCHANGED <<wired, now, backendVars, factoryVars, memoryData, appVars>>

JsonStorageServiceSetObject(key, value) ==
    /\ wired = "JsonStorageService"
    /\ memoryData' = JsonStorageService_setObject(memoryData, key, value)
    /\ written' = [written EXCEPT ![key] = Write(value, <<>>, "setObject")]
    /\ last' = Call(wired, "setObject", <<key>>, <<>>)
    /\ UNCHANGED <<wired, now, backendVars, factoryVars, objectStore, appVars>>

JsonStorageServiceGetObject(key, defaultValue) ==
    /\ wired = "JsonStorageService"
    /\ last' = Call(wired, "getObject", <<key, defaultValue>>,
                    <<JsonStorageService_getObject(memoryData, key, defaultValue)>>)
    /\ UNCHANGED <<wired, now, written, backendVars, factoryVars, serializedVars, appVars>>

JsonStorageServiceSetString(key, value) ==
    /\ wired = "JsonStorageService"
    /\ memoryData' = JsonStorageService_setString(memoryData, key, value)
    /\ written' = [written EXCEPT ![key] = Write(JSString(value), <<>>, "setString")]
    /\ last' = Call(wired, "setString", <<key>>, <<>>)
    /\ UNCHANGED <<wired, now, backendVars, factoryVars, objectStore, appVars>>

JsonStorageServiceRemoveItem(key) ==
    /\ wired = "JsonStorageService"
    /\ memoryData' = JsonStorageService_removeItem(memoryData, key)
    /\ written' = [written EXCEPT ![key] = <<>>]
    /\ last' = Call(wired, "removeItem", <<key>>, <<>>)
    /\ UNCHANGED <<wired, now, backendVars, factoryVars, objectStore, appVars>>

JsonStorageServiceHasItem(key) ==
    /\ wired = "JsonStorageService"
    /\ last' = Call(wired, "hasItem", <<key>>,
                    <<JsonStorageService_hasItem(memoryData, key)>>)
    /\ UNCHANGED <<wired, now, written, backendVars, factoryVars, serializedVars, appVars>>

NextSerialized ==
    \/ \E k \in Keys, v \in JSValues : MockSerializedSetObject(k, v)
    \/ \E k \in Keys : MockSerializedGetObject(k)
    \/ \E k \in Keys : MockSerializedRemoveObject(k)
    \/ \E k \in Keys : MockSerializedHasObject(k)
    \/ MockSerializedReset
    \/ \E k \in Keys, v \in JSValues : JsonStorageServiceSetObject(k, v)
    \/ \E k \in Keys, d \in Defaults : JsonStorageServiceGetObject(k, d)
    \/ \E k \in Keys, t \in RawTexts : JsonStorageServiceSetString(k, t)
    \/ \E k \in Keys : JsonStorageServiceRemoveItem(k)
    \/ \E k \in Keys : JsonStorageServiceHasItem(k)

SpecSerialized == InitSerialized /\ [][NextSerialized]_vars

----------------------------------------------------------------------------
(* Choosing a storage type for the runtime: the documented StorageFactory  *)
(* and MockStorageFactory.getDefaultStorageType, in any runtime            *)

Envs ==
    {e \in [navigator : {"undefined", "Gecko", "ReactNative"}, window : BOOLEAN,
            localStorage : BOOLEAN, sessionStorage : BOOLEAN] :
        (e.localStorage \/ e.sessionStorage) => e.window}

InitPlatform ==
    /\ wired \in PlatformCallers
    /\ InitStorage
    /\ env \in Envs
    /\ InitSingletons
    /\ InitNetworkClient
    /\ InitAsync

StorageFactoryCreateStorage(type) ==
    /\ wired \in PlatformCallers
    /\ LET r == StorageFactory_createStorage(env, type)
       IN  last' = IF r.error = <<>>
                   THEN Call("StorageFactory", "createStorage", <<type>>, r.ret)
                   ELSE Raise("StorageFactory", "createStorage", <<type>>, r.error[1])
    /\ UNCHANGED <<wired, storageVars, appVars>>

StorageFactoryCreatePlatformStorage ==
    /\ wired \in PlatformCallers
    /\ LET r == StorageFactory_createPlatformStorage(env)
       IN  last' = IF r.error = <<>>
                   THEN Call("StorageFactory", "createPlatformStorage", <<>>, r.ret)
                   ELSE Raise("StorageFactory", "createPlatformStorage", <<>>,
                              r.error[1])
    /\ UNCHANGED <<wired, storageVars, appVars>>

NextPlatform ==
    \/ \E t \in StorageTypes \cup {T_unsupported} : StorageFactoryCreateStorage(t)
    \/ StorageFactoryCreatePlatformStorage
    \/ FactoryGetDefaultStorageType
    \/ \E t \in StorageTypes : FactorySetDefaultStorageType(t)

SpecPlatform == InitPlatform /\ [][NextPlatform]_vars

-----------------------------------------------------------------------------
(* The service singletons: info-singleton.ts, storage.web.ts (network),    *)
(* firebase-analytics.ts. An object is named by a string; a module-level    *)
(* variable holds an Optional object (<<>> is null).                        *)

SingletonCallers == {"service singletons"}

\* the objects a caller passes to initializeInfoService
InfoImplementations == {"first", "second"}

\* initializeNetworkService(service?): nothing, or a custom PlatformNetwork
CustomNetworkServices == {"custom network service"}
NetworkServiceArgs == {<<>>} \cup {<<c>> : c \in CustomNetworkServices}

\* the objects the initializers construct themselves
WebNetworkServices ==
    {"WebNetworkService 1", "WebNetworkService 2", "WebNetworkService 3"}
FirebaseAnalyticsServices ==
    {"FirebaseAnalyticsService 1", "FirebaseAnalyticsService 2",
     "FirebaseAnalyticsService 3"}
Constructed == WebNetworkServices \cup FirebaseAnalyticsServices

M_infoNotInitialized ==
    "Info service not initialized. Call initializeInfoService(implementation) at app startup."
M_networkNotInitialized ==
    "Network service not initialized. Call initializeNetworkService() at app startup."
M_analyticsNotInitialized ==
    "Analytics service not initialized. Call initializeFirebaseAnalytics() first."

\* new C(): an object that is none of the objects still referred to
New(pool, held) == CHOOSE o \in pool : <<o>> \notin held

\* the objects of a singleton that the program or its caller may still hold
Held(s) ==
    {installed[s], beforeReset[s]} \cup
    (CASE s = "info" -> {infoServiceInstance}
       [] s = "network" -> {networkServiceInstance}
       [] s = "analytics" -> {analyticsService})

\* mutant: the early return is missing
initializeInfoService_replace(instance, implementation) == <<implementation>>

\* if (infoServiceInstance) return; infoServiceInstance = implementation
initializeInfoService(instance, implementation) ==
    IF instance # <<>> THEN instance ELSE <<implementation>>

\* if (networkServiceInstance) return;
\* networkServiceInstance = service ?? new WebNetworkService()
initializeNetworkService(instance, service) ==
    IF instance # <<>> THEN instance
    ELSE IF service # <<>> THEN service
    ELSE <<New(WebNetworkServices, Held("network"))>>

\* if (!analyticsService) analyticsService = new FirebaseAnalyticsService(...)
initializeFirebaseAnalytics(instance) ==
    IF instance = <<>> THEN <<New(FirebaseAnalyticsServices, Held("analytics"))>>
    ELSE instance

\* mutant: the null is handed out
getInfoService_null(instance) == Call("info", "getInfoService", <<>>, instance)

\* if (!instance) throw new Error(message); return instance
getInfoService(instance) ==
    IF instance = <<>>
    THEN Raise("info", "getInfoService", <<>>, M_infoNotInitialized)
    ELSE Call("info", "getInfoService", <<>>, instance)

getNetworkService(instance) ==
    IF instance = <<>>
    THEN Raise("network", "getNetworkService", <<>>, M_networkNotInitialized)
    ELSE Call("network", "getNetworkService", <<>>, instance)

getAnalyticsService(instance) ==
    IF instance = <<>>
    THEN Raise("analytics", "getAnalyticsService", <<>>, M_analyticsNotInitialized)
    ELSE Call("analytics", "getAnalyticsService", <<>>, instance)

\* history: the object the first initialize since the last reset installed
NoteInitialize(s, object) ==
    installed' = IF installed[s] = <<>> THEN [installed EXCEPT ![s] = object]
                 ELSE installed

\* history: a reset forgets the installation and remembers what it discarded
NoteReset(s, instance) ==
    /\ installed' = [installed EXCEPT ![s] = <<>>]
    /\ beforeReset' = [beforeReset EXCEPT ![s] = instance]

InitializeInfoService(implementation) ==
    /\ wired \in SingletonCallers
    /\ infoServiceInstance' = initializeInfoService(infoServiceInstance, implementation)
    /\ NoteInitialize("info", <<implementation>>)
    /\ last' = Call("info", "initializeInfoService", <<implementation>>, <<>>)
    /\ UNCHANGED <<wired, storageVars, asyncVars, platformVars, networkVars,
                   networkServiceInstance, analyticsService, beforeReset>>

GetInfoService ==
    /\ wired \in SingletonCallers
    /\ last' = getInfoService(infoServiceInstance)
    /\ UNCHANGED <<wired, storageVars, appVars>>

ResetInfoService ==
    /\ wired \in SingletonCallers
    /\ infoServiceInstance' = <<>>
    /\ NoteReset("info", infoServiceInstance)
    /\ last' = Call("info", "resetInfoService", <<>>, <<>>)
    /\ UNCHANGED <<wired, storageVars, asyncVars, platformVars, networkVars,
                   networkServiceInstance, analyticsService>>

InitializeNetworkService(service) ==
    /\ wired \in SingletonCallers
    /\ networkServiceInstance' = initializeNetworkService(networkServiceInstance, service)
    /\ NoteInitialize("network", initializeNetworkService(<<>>, service))
    /\ last' = Call("network", "initializeNetworkService", service, <<>>)
    /\ UNCHANGED <<wired, storageVars, asyncVars, platformVars, networkVars,
                   infoServiceInstance, analyticsService, beforeReset>>

GetNetworkService ==
    /\ wired \in SingletonCallers
    /\ last' = getNetworkService(networkServiceInstance)
    /\ UNCHANGED <<wired, storageVars, appVars>>

\* destroy(), where the instance has one, releases the listeners of that
\* object; the variable is set to null after it
ResetNetworkService ==
    /\ wired \in SingletonCallers
    /\ networkServiceInstance' = <<>>
    /\ NoteReset("network", networkServiceInstance)
    /\ last' = Call("network", "resetNetworkService", <<>>, <<>>)
    /\ UNCHANGED <<wired, storageVars, asyncVars, platformVars, networkVars,
                   infoServiceInstance, analyticsService>>

\* returns the singleton
InitializeFirebaseAnalytics ==
    /\ wired \in SingletonCallers
    /\ analyticsService' = initializeFirebaseAnalytics(analyticsService)
    /\ NoteInitialize("analytics", initializeFirebaseAnalytics(<<>>))
    /\ last' = Call("analytics", "initializeFirebaseAnalytics", <<>>,
                    initializeFirebaseAnalytics(analyticsService))
    /\ UNCHANGED <<wired, storageVars, asyncVars, platformVars, networkVars,
                   infoServiceInstance, networkServiceInstance, beforeReset>>

GetAnalyticsService ==
    /\ wired \in SingletonCallers
    /\ last' = getAnalyticsService(analyticsService)
    /\ UNCHANGED <<wired, storageVars, appVars>>

ResetAnalyticsService ==
    /\ wired \in SingletonCallers
    /\ analyticsService' = <<>>
    /\ NoteReset("analytics", analyticsService)
    /\ last' = Call("analytics", "resetAnalyticsService", <<>>, <<>>)
    /\ UNCHANGED <<wired, storageVars, asyncVars, platformVars, networkVars,
                   infoServiceInstance, networkServiceInstance>>

InitSingletonCallers == wired \in SingletonCallers /\ InitCommon

NextSingletons ==
    \/ \E i \in InfoImplementations : InitializeInfoService(i)
    \/ GetInfoService
    \/ ResetInfoService
    \/ \E s \in NetworkServiceArgs : InitializeNetworkService(s)
    \/ GetNetworkService
    \/ ResetNetworkService
    \/ InitializeFirebaseAnalytics
    \/ GetAnalyticsService
    \/ ResetAnalyticsService

SpecSingletons == InitSingletonCallers /\ [][NextSingletons]_vars

-----------------------------------------------------------------------------
(* MockNetworkClient (mocks/firebase.mock.ts). Rates and random numbers are  *)
(* percentages: errorRate 0.5 is 50, and Math.random() draws from 0..99.     *)
(* The delay of a response postpones the answer and is not modelled.         *)

NetworkCallers == {"MockNetworkClient"}

M_offline == "Network request failed: offline"
M_random == "Simulated random network error"
M_cyclic == "TypeError: Converting circular structure to JSON"

\* the draws of Math.random() that the rates of the model tell apart
Randoms == {0, 50, 99}

\* the rates a test passes to setErrorRate
Rates == {0, 50, 100, 150}

\* the bodies a caller posts: none, a string, a plain object, and an object
\* that refers to itself
Bodies == {"undefined", "text", "object", "cyclic object"}

RequestOps == {"get", "post", "put", "delete", "request"}

\* Math.max(0, Math.min(1, rate))
ClampRate(rate) ==
    LET m == IF rate < 100 THEN rate ELSE 100
    IN  IF m > 0 THEN m ELSE 0

\* mockResponses.get(`${method}:${url}`) ?? mockResponses.get(url) ?? defaultResponse
MockNetworkClient_mockConfig(mocks, default, method, url) ==
    IF mocks[MockKey(url, <<method>>)] # <<>> THEN mocks[MockKey(url, <<method>>)][1]
    ELSE IF mocks[MockKey(url, <<>>)] # <<>> THEN mocks[MockKey(url, <<>>)][1]
    ELSE default

\* what request() hands back for a configuration without error
NetworkResponse(mockConfig) ==
    [data |-> mockConfig.data,
     status |-> IF mockConfig.status # <<>> THEN mockConfig.status[1] ELSE 200,
     ok |-> IF mockConfig.ok # <<>> THEN mockConfig.ok[1] ELSE TRUE]

Resolved(response) == [error |-> <<>>, ret |-> <<response>>]
Rejected(message) == [error |-> <<message>>, ret |-> <<>>]

\* mutant: the offline flag is looked at only where nothing is configured
MockNetworkClient_request_mocksFirst(isOffline, rate, random, mocks, default, method, url) ==
    LET mockConfig == MockNetworkClient_mockConfig(mocks, default, method, url)
    IN  IF isOffline /\ mockConfig = default THEN Rejected(M_offline)
        ELSE IF rate > 0 /\ random < rate THEN Rejected(M_random)
        ELSE IF mockConfig.error # <<>> THEN Rejected(mockConfig.error[1])
        ELSE Resolved(NetworkResponse(mockConfig))

\* request(url, options), after the request was recorded
MockNetworkClient_request(isOffline, rate, random, mocks, default, method, url) ==
    IF isOffline THEN Rejected(M_offline)
    ELSE IF rate > 0 /\ random < rate THEN Rejected(M_random)
    ELSE LET mockConfig == MockNetworkClient_mockConfig(mocks, default, method, url)
         IN  IF mockConfig.error # <<>> THEN Rejected(mockConfig.error[1])
             ELSE Resolved(NetworkResponse(mockConfig))

\* typeof body === 'string' ? body : body ? JSON.stringify(body) : undefined;
\* JSON.stringify throws a TypeError on an object that refers to itself
BodyStrThrows(body) == body = "cyclic object"

Outcome(op, method, url, body, result) ==
    [on |-> "MockNetworkClient", op |-> op, arg |-> <<method, url, body>>,
     ret |-> result.ret, removed |-> {}, error |-> result.error]

\* this.requests.push(...), then the answer
Request(op, method, url, body) ==
    /\ wired \in NetworkCallers
    /\ requests' = requests \cup {<<method, url>>}
    /\ \E random \in Randoms :
           last' = Outcome(op, method, url, body,
                       MockNetworkClient_request(offline, errorRate, random,
                           mockResponses, defaultResponse, method, url))
    /\ UNCHANGED <<wired, storageVars, asyncVars, platformVars, singletonVars, offline,
                   errorRate, mockResponses, defaultResponse, cameOnline>>

\* post and put build bodyStr before they call request
RequestWithBody(op, method, url, body) ==
    IF BodyStrThrows(body)
    THEN /\ wired \in NetworkCallers
         /\ last' = Outcome(op, method, url, body, Rejected(M_cyclic))
         /\ UNCHANGED <<wired, storageVars, appVars>>
    ELSE Request(op, method, url, body)

MockNetworkClientRequest(url, method) ==
    Request("request", IF method = <<>> THEN "GET" ELSE method[1], url, "undefined")

MockNetworkClientGet(url) == Request("get", "GET", url, "undefined")

MockNetworkClientPost(url, body) == RequestWithBody("post", "POST", url, body)

MockNetworkClientPut(url, body) == RequestWithBody("put", "PUT", url, body)

MockNetworkClientDelete(url) == Request("delete", "DELETE", url, "undefined")

ClientCall(op, arg) ==
    [on |-> "MockNetworkClient", op |-> op, arg |-> arg, ret |-> <<>>,
     removed |-> {}, error |-> <<>>]

MockNetworkClientSetMockResponse(url, response, method) ==
    /\ wired \in NetworkCallers
    /\ mockResponses' = [mockResponses EXCEPT ![MockKey(url, method)] = <<response>>]
    /\ last' = ClientCall("setMockResponse", <<url, response, method>>)
    /\ UNCHANGED <<wired, storageVars, asyncVars, platformVars, singletonVars, offline,
                   errorRate, defaultResponse, requests, cameOnline>>

MockNetworkClientSetDefaultResponse(response) ==
    /\ wired \in NetworkCallers
    /\ defaultResponse' = response
    /\ last' = ClientCall("setDefaultResponse", <<response>>)
    /\ UNCHANGED <<wired, storageVars, asyncVars, platformVars, singletonVars, offline,
                   errorRate, mockResponses, requests, cameOnline>>

MockNetworkClientClearMockResponse(url, method) ==
    /\ wired \in NetworkCallers
    /\ mockResponses' = [mockResponses EXCEPT ![MockKey(url, method)] = <<>>]
    /\ last' = ClientCall("clearMockResponse", <<url, method>>)
    /\ UNCHANGED <<wired, storageVars, asyncVars, platformVars, singletonVars, offline,
                   errorRate, defaultResponse, requests, cameOnline>>

MockNetworkClientSetErrorRate(rate) ==
    /\ wired \in NetworkCallers
    /\ errorRate' = ClampRate(rate)
    /\ last' = ClientCall("setErrorRate", <<rate>>)
    /\ UNCHANGED <<wired, storageVars, asyncVars, platformVars, singletonVars, offline,
                   mockResponses, defaultResponse, requests, cameOnline>>

MockNetworkClientSimulateOffline ==
    /\ wired \in NetworkCallers
    /\ offline' = TRUE
    /\ cameOnline' = FALSE
    /\ last' = ClientCall("simulateOffline", <<>>)
    /\ UNCHANGED <<wired, storageVars, asyncVars, platformVars, singletonVars, errorRate,
                   mockResponses, defaultResponse, requests>>

MockNetworkClientSimulateOnline ==
    /\ wired \in NetworkCallers
    /\ offline' = FALSE
    /\ cameOnline' = TRUE
    /\ last' = ClientCall("simulateOnline", <<>>)
    /\ UNCHANGED <<wired, storageVars, asyncVars, platformVars, singletonVars, errorRate,
                   mockResponses, defaultResponse, requests>>

MockNetworkClientReset ==
    /\ wired \in NetworkCallers
    /\ requests' = {}
    /\ mockResponses' = [k \in MockKeys |-> <<>>]
    /\ defaultResponse' = R_default
    /\ errorRate' = 0
    /\ offline' = FALSE
    /\ last' = ClientCall("reset", <<>>)
    /\ UNCHANGED <<wired, storageVars, asyncVars, platformVars, singletonVars, cameOnline>>

\* the keys the tests configure
ConfiguredMethods == {<<>>, <<"GET">>}

InitNetwork == wired \in NetworkCallers /\ InitCommon

NextNetwork ==
    \/ \E u \in Urls, m \in {<<>>, <<"PATCH">>} : MockNetworkClientRequest(u, m)
    \/ \E u \in Urls : MockNetworkClientGet(u)
    \/ \E u \in Urls, b \in Bodies : MockNetworkClientPost(u, b)
    \/ \E u \in Urls, b \in Bodies : MockNetworkClientPut(u, b)
    \/ \E u \in Urls : MockNetworkClientDelete(u)
    \/ \E u \in Urls, r \in MockHttpResponses, m \in ConfiguredMethods :
           MockNetworkClientSetMockResponse(u, r, m)
    \/ \E r \in MockHttpResponses : MockNetworkClientSetDefaultResponse(r)
    \/ \E u \in Urls, m \in ConfiguredMethods : MockNetworkClientClearMockResponse(u, m)
    \/ \E r \in Rates : MockNetworkClientSetErrorRate(r)
    \/ MockNetworkClientSimulateOffline
    \/ MockNetworkClientSimulateOnline
    \/ MockNetworkClientReset

SpecNetwork == InitNetwork /\ [][NextNetwork]_vars

----------------------------------------------------------------------------
(* What the wired backend answers in the current state *)

AdvancedClasses == {"MockAdvancedPlatformStorage", "AdvancedWebStorage"}

\* getItem(key) of class on, as a string
GetItemNow(on, key) ==
    CASE on = "MockPlatformStorage" -> MockPlatformStorage_getItem(mockStore, key)
      [] on = "MockAdvancedPlatformStorage" -> MockAdvanced_getItem(advStore, key, now)
      [] on = "WebStorage" ->
            LET r == WebStorage_getItem(sessionStorage, key, storageThrows)
            IN  IF r = <<>> THEN <<>> ELSE <<r[1].text>>
      [] on = "AdvancedWebStorage" ->
            AdvancedWeb_getItem(sessionStorage, key, now, storageThrows)

HasItemNow(on, key) ==
    IF on = "MockAdvancedPlatformStorage"
    THEN MockAdvanced_hasItem(advStore, key, now)
    ELSE AdvancedWeb_hasItem(sessionStorage, key, storageThrows)

GetAllKeysNow(on) ==
    IF on = "MockAdvancedPlatformStorage"
    THEN MockAdvanced_getAllKeys(advStore, now)
    ELSE AdvancedWeb_getAllKeys(sessionStorage, storageThrows)

\* the advanced class of the wired backend family, if it has one
WiredAdvanced ==
    IF wired = "MockAdvancedPlatformStorage" THEN {"MockAdvancedPlatformStorage"}
    ELSE IF wired = "sessionStorage" THEN {"AdvancedWebStorage"}
    ELSE {}

\* everything sessionStorage holds was put there by AdvancedWebStorage
OnlyEnvelopes == \A k \in Keys : sessionStorage[k] = <<>> \/ sessionStorage[k][1].json

HasPositiveTtl(w) == w.ttl # <<>> /\ w.ttl[1] > 0

----------------------------------------------------------------------------
(* C1: on each of the four backends, a key last written by setItem(key,    *)
(* value) without a TTL, and not removed or cleared since, reads back as   *)
(* exactly value (the empty string included) at every later time.          *)
C1_SetThenGetReturnsValue ==
    \A k \in Keys :
        (written[k] # <<>> /\ written[k][1].ttl = <<>>)
            => GetItemNow(written[k][1].via, k) = <<written[k][1].value>>

\* AdvancedWebStorage has returned "" for a key set to "" two ticks earlier
C1_Witness ==
    \E k \in Keys :
        /\ written[k] # <<>>
        /\ written[k][1].via = "AdvancedWebStorage"
        /\ written[k][1].ttl = <<>>
        /\ written[k][1].value = ""
        /\ now >= written[k][1].at + 2
        /\ last.on = "AdvancedWebStorage"
        /\ last.op = "getItem"
        /\ last = Call("AdvancedWebStorage", "getItem", <<k>>, <<"">>)

(* C2: on an advanced backend, a key last written by setItem(key, value,   *)
(* ttl) with ttl > 0 at time t reads back as value while now - t <= ttl    *)
(* (equality included) and as none once now - t > ttl.                     *)
C2_TtlBoundary ==
    \A k \in Keys :
        (/\ written[k] # <<>>
         /\ written[k][1].via \in AdvancedClasses
         /\ HasPositiveTtl(written[k][1]))
            => GetItemNow(written[k][1].via, k) =
                   IF now - written[k][1].at <= written[k][1].ttl[1]
                   THEN <<written[k][1].value>>
                   ELSE <<>>

\* getItem has returned the value at an age exactly equal to the ttl
C2_Witness ==
    \E k \in Keys :
        /\ written[k] # <<>>
        /\ written[k][1].via = "MockAdvancedPlatformStorage"
        /\ HasPositiveTtl(written[k][1])
        /\ now - written[k][1].at = written[k][1].ttl[1]
        /\ last.on = "MockAdvancedPlatformStorage"
        /\ last.op = "getItem"
        /\ last = Call("MockAdvancedPlatformStorage", "getItem", <<k>>,
                       <<written[k][1].value>>)

(* C3: in every state of an advanced backend, hasItem(key) is true exactly *)
(* when getItem(key) at the same instant returns a value.                  *)
C3_HasItemAgreesWithGetItem ==
    \A on \in WiredAdvanced, k \in Keys :
        OnlyEnvelopes => (HasItemNow(on, k) <=> GetItemNow(on, k) # <<>>)

(* C4: getAllKeys() of an advanced backend lists no key whose last write   *)
(* carried a positive TTL that its age now exceeds, and lists every key    *)
(* whose last write is still live.                                         *)
C4_GetAllKeysListsExactlyLiveKeys ==
    \A on \in WiredAdvanced, k \in Keys :
        (written[k] # <<>> /\ written[k][1].via = on)
            => (k \in GetAllKeysNow(on)
                  <=> ~(/\ HasPositiveTtl(written[k][1])
                        /\ now - written[k][1].at > written[k][1].ttl[1]))

(* C5: clearPattern("user:*") on an advanced backend removes every stored  *)
(* key that starts with "user:" and leaves every other key's entry as it   *)
(* was.                                                                    *)
StartsWith(s, prefix) ==
    Len(s) >= Len(prefix) /\ SubSeq(s, 1, Len(prefix)) = prefix

UserPrefix == <<"u", "s", "e", "r", ":">>

C5_ClearPatternRemovesPrefix ==
    [][/\ (last'.op = "clearPattern" /\ MockAdvancedClearPattern(<<P_userStar>>))
            => advStore' = [k \in Keys |->
                  IF StartsWith(k, UserPrefix) THEN <<>> ELSE advStore[k]]
       /\ (OnlyEnvelopes /\ last'.op = "clearPattern"
              /\ AdvancedWebClearPattern(<<P_userStar>>))
            => sessionStorage' = [k \in Keys |->
                  IF StartsWith(k, UserPrefix) THEN <<>> ELSE sessionStorage[k]]
      ]_vars

(* C6: after clearPattern() with no pattern on an advanced backend the     *)
(* store is what clear() leaves: getAllKeys() is empty, getItem is none    *)
(* and hasItem is false for every key.                                     *)
C6_ClearPatternNoArgEmptiesStore ==
    \A on \in AdvancedClasses :
        (last.on = on /\ last.op = "clearPattern" /\ last.arg = <<>>)
            => /\ GetAllKeysNow(on) = {}
               /\ \A k \in Keys : GetItemNow(on, k) = <<>> /\ ~HasItemNow(on, k)
               /\ advStore = EmptyMap
               /\ sessionStorage = EmptyMap

\* clearPattern() has just deleted every key of a full store
C6_Witness ==
    /\ last.on = "MockAdvancedPlatformStorage"
    /\ last.op = "clearPattern"
    /\ last.arg = <<>>
    /\ last.removed = Keys

----------------------------------------------------------------------------
(* MockStorageFactory and MockStorageService claims, under SpecFactory *)

\* the MockStorageService the factory holds for type, as <<id>> or <<>>
InstanceOf(type) == storageInstances[type]

LastOn(on, ops) == last.on = on /\ last.op \in ops

C8_InstancesAreIsolated ==
    [][\A t1 \in StorageTypes : \A t2 \in StorageTypes \ {t1} :
          (InstanceOf(t1) # <<>> /\ InstanceOf(t2) # <<>>) =>
              /\ InstanceOf(t1) # InstanceOf(t2)
              /\ ( /\ last'.on = "MockStorageService"
                   /\ last'.op \in {"setItem", "removeItem", "clear"}
                   /\ last'.arg[1] = InstanceOf(t1)[1] )
                 => LET other == InstanceOf(t2)[1]
                    IN  /\ \A k \in Keys :
                               MockStorageService_getItem(services', other, k)
                                 = MockStorageService_getItem(services, other, k)
                        /\ MockStorageService_getAllKeys(services', other)
                             = MockStorageService_getAllKeys(services, other)
      ]_vars

\* two types have instances, the last call wrote a key to one of them and
\* the other one does not hold that key
C8_Witness ==
    \E t1 \in StorageTypes : \E t2 \in StorageTypes \ {t1} :
        /\ InstanceOf(t1) # <<>> /\ InstanceOf(t2) # <<>>
        /\ InstanceOf(t1) # InstanceOf(t2)
        /\ LastOn("MockStorageService", {"setItem"})
        /\ last.arg[1] = InstanceOf(t1)[1]
        /\ MockStorageService_getItem(services, InstanceOf(t1)[1], K_other) # <<>>
        /\ MockStorageService_getItem(services, InstanceOf(t2)[1], K_other) = <<>>

\* C9: while isAvailable() answers false, getItem answers none for every key
\* and setItem and removeItem leave the stored contents as they were.
C9_UnavailableServiceIsInert ==
    [][\A i \in Ids :
          (services[i] # <<>> /\ ~MockStorageService_isAvailable(services, i)) =>
              /\ \A k \in Keys : MockStorageService_getItem(services, i, k) = <<>>
              /\ ( /\ last'.on = "MockStorageService"
                   /\ last'.op \in {"setItem", "removeItem"}
                   /\ last'.arg[1] = i )
                 => services'[i] = services[i]
      ]_vars

\* the last call asked the factory for a type that is no member of the enum
AskedForUnregisteredType ==
    /\ LastOn("MockStorageFactory", {"createStorage", "createSerializedStorage"})
    /\ last.arg[1] \notin StorageTypes

\* C12: asking the factory for an unregistered type raises and returns no
\* service, and no other call raises.
C12_OnlyUnregisteredTypeRaises ==
    /\ AskedForUnregisteredType => (last.error # <<>> /\ last.ret = <<>>)
    /\ last.error # <<>> => AskedForUnregisteredType

\* C15: createSerializedStorage(T) returns the instance it holds for T and
\* keeps it; createStorage leaves the serialized registry alone and
\* createSerializedStorage leaves the storage registry and the storage
\* services alone; no object is in both registries.
C15_SerializedRegistryIsSeparate ==
    [][/\ \A t \in TypeKeys :
             ( /\ last'.on = "MockStorageFactory"
               /\ last'.op = "createSerializedStorage"
               /\ last'.arg = <<t>>
               /\ serializedInstances[t] # <<>> )
             => /\ last'.ret = serializedInstances[t]
                /\ serializedInstances' = serializedInstances
       /\ (last'.on = "MockStorageFactory" /\ last'.op = "createStorage")
             => serializedInstances' = serializedInstances
       /\ (last'.on = "MockStorageFactory" /\ last'.op = "createSerializedStorage")
             => (storageInstances' = storageInstances /\ services' = services)
       /\ \A t1 \in TypeKeys, t2 \in TypeKeys :
             serializedInstances'[t1] # <<>>
                 => serializedInstances'[t1] # storageInstances'[t2]
      ]_vars

\* createSerializedStorage(T) has just returned the instance made before
\* the storage service of the same type was created
C15_Witness ==
    \E t \in StorageTypes :
        /\ LastOn("MockStorageFactory", {"createSerializedStorage"})
        /\ last.arg = <<t>>
        /\ last.ret = serializedInstances[t]
        /\ last.ret # <<>>
        /\ storageInstances[t] # <<>>
        /\ storageInstances[t][1] > last.ret[1]

----------------------------------------------------------------------------
(* MockStorageProvider claims, under SpecProvider *)

ProviderGetNow(key) ==
    MockStorageProvider_get(wired = P_advanced, Wrapped, key, now)

----------------------------------------------------------------------------
(* Web adapter claims, under SpecWebFaults *)

\* this step is a call on one of the web adapters made while sessionStorage
\* throws
CallWhileThrowing ==
    /\ storageThrows /\ storageThrows'
    /\ now' = now
    /\ last'.on \in {"WebStorage", "AdvancedWebStorage"}

\* C14: while sessionStorage throws, every call on WebStorage and
\* AdvancedWebStorage returns without raising, leaves the stored contents as
\* they were, and a read answers none, no keys, or false.
C14_WebAdaptersAbsorbFailures ==
    [][CallWhileThrowing =>
          /\ last'.error = <<>>
          /\ sessionStorage' = sessionStorage
          /\ last'.op = "getItem" => last'.ret = <<>>
          /\ last'.op = "getAllKeys" => last'.ret = {}
          /\ last'.op = "hasItem" => last'.ret = FALSE
      ]_vars

\* while sessionStorage throws, AdvancedWebStorage.getItem has answered none
\* for a key that is stored
C14_Witness ==
    /\ storageThrows
    /\ last.on = "AdvancedWebStorage" /\ last.op = "getItem"
    /\ last.arg = <<K_other>>
    /\ sessionStorage[K_other] # <<>>
    /\ last.ret = <<>>
    /\ written[K_other] # <<>> /\ written[K_other][1].ttl = <<>>

----------------------------------------------------------------------------
(* Default storage type, under SpecPlatform *)

NativeModulePresent(e) == e.navigator = "ReactNative"
LocalAvailable(e) == e.window /\ e.localStorage
SessionAvailable(e) == e.window /\ e.sessionStorage

\* native first, then local, then session, memory last
PreferredType(e) ==
    IF NativeModulePresent(e) THEN "asyncStorage"
    ELSE IF LocalAvailable(e) THEN "localStorage"
    ELSE IF SessionAvailable(e) THEN "sessionStorage"
    ELSE "memory"

\* C16: getDefaultStorageType() answers the preferred type of the runtime,
\* and the auto-detecting createPlatformStorage() builds the storage of
\* that type.
C16_DefaultTypeFollowsPrecedence ==
    /\ last.op = "getDefaultStorageType" => last.ret = <<PreferredType(env)>>
    /\ last.op = "createPlatformStorage" =>
           /\ last.error = <<>>
           /\ last.ret = StorageFactory_createStorage(env, PreferredType(env)).ret

----------------------------------------------------------------------------
(* Serialized storage claims, under SpecSerialized *)

RECURSIVE JsonSafe(_)
\* strings, finite numbers other than -0, booleans, null, and arrays and
\* plain objects of such values
JsonSafe(value) ==
    CASE value.t \in {"string", "boolean", "null"} -> TRUE
      [] value.t = "number" -> value.s \notin {N_NaN, N_negZero}
      [] value.t \in {"array", "object"} ->
             \A i \in 1..Len(value.items) : JsonSafe(value.items[i])
      [] OTHER -> FALSE

\* deep equality; a value of the model has one representation
DeepEqual(a, b) == a = b

\* the key's latest write was setObject(key, v) with v JSON-safe, and
\* nothing has removed the key since
HoldsJsonSafeObject(key) ==
    /\ written[key] # <<>>
    /\ written[key][1].via = "setObject"
    /\ JsonSafe(written[key][1].value)

\* C10: getObject(key) after setObject(key, v), v JSON-safe and the key not
\* written or removed in between, returns a value deep-equal to v.
C10_GetObjectReturnsWhatSetObjectStored ==
    (wired \in SerializedClasses /\ last.op = "getObject"
        /\ HoldsJsonSafeObject(last.arg[1]))
    => DeepEqual(last.ret[1], written[last.arg[1]][1].value)

\* getObject has just returned a nested container with a falsy member, and
\* the other key has been written since the setObject
C10_Witness ==
    /\ wired = "JsonStorageService"
    /\ last.op = "getObject"
    /\ HoldsJsonSafeObject(K_user1)
    /\ last.arg[1] = K_user1
    /\ written[K_user1][1].value = JSObject(<<L_a, L_b>>, <<JSBoolean(T_false), JSNull>>)
    /\ DeepEqual(last.ret[1], written[K_user1][1].value)
    /\ written[K_other] # <<>>

\* the text MemoryStorage holds under key is not JSON
HoldsUndecodableText(key) ==
    /\ memoryData[key] # <<>>
    /\ memoryData[key][1] # <<>>
    /\ JSON_parse(memoryData[key][1][1]) = <<>>

\* what getObject(key, defaultValue) answers when nothing is stored under key
AnswerForAbsentKey(defaultValue) ==
    JsonStorageService_getObject(EmptyMap, K_other, defaultValue)

-----------------------------------------------------------------------------
(* The service singletons *)

Getter ==
    [info |-> "getInfoService", network |-> "getNetworkService",
     analytics |-> "getAnalyticsService"]

NotInitialized ==
    [info |-> M_infoNotInitialized, network |-> M_networkNotInitialized,
     analytics |-> M_analyticsNotInitialized]

\* the module-level variable of a singleton
Instance(s) ==
    CASE s = "info" -> infoServiceInstance
      [] s = "network" -> networkServiceInstance
      [] s = "analytics" -> analyticsService

GetterCalled(s) == last.on = s /\ last.op = Getter[s]

\* C17: the getter of a singleton raises its 'not initialized' error when no
\* initialize call has happened since start or since the last reset, and
\* returns an instance without raising otherwise.
C17_GetterRaisesUntilInitialized ==
    \A s \in Singletons :
        GetterCalled(s) =>
            IF installed[s] = <<>>
            THEN last.error = <<NotInitialized[s]>> /\ last.ret = <<>>
            ELSE last.error = <<>> /\ last.ret # <<>>

\* a getter raised after a reset discarded an instance, and another getter
\* could return in the same state
C17_Witness ==
    /\ GetterCalled("network")
    /\ last.error # <<>>
    /\ beforeReset["network"] # <<>>
    /\ installed["info"] # <<>>

\* the getter returns what the first initialize since the last reset installed
GetterReturnsFirstInstalled ==
    \A s \in Singletons :
        (GetterCalled(s) /\ last.error = <<>>) => last.ret = installed[s]

\* C18 as stated: the getter returns the instance the first initialize since
\* the most recent reset installed, and an instance installed after a reset
\* is never the one the reset discarded.
C18_Original ==
    /\ GetterReturnsFirstInstalled
    /\ \A s \in Singletons :
           (Instance(s) # <<>> /\ beforeReset[s] # <<>>) =>
               Instance(s) # beforeReset[s]

\* C18, amended: the getter returns the instance the first initialize since
\* the most recent reset installed; an instance the initializer constructed
\* itself is never the one the reset discarded, while an object the caller
\* passes is installed as it is, the discarded one included.
C18_FirstInitializeWins ==
    /\ GetterReturnsFirstInstalled
    /\ \A s \in Singletons :
           (Instance(s) # <<>> /\ beforeReset[s] # <<>>
               /\ Instance(s)[1] \in Constructed) =>
               Instance(s) # beforeReset[s]

\* the getter returns an instance that a reset and a second initialize put in
\* place of a discarded one
C18_Witness ==
    /\ GetterCalled("analytics")
    /\ last.error = <<>>
    /\ beforeReset["analytics"] # <<>>
    /\ last.ret # beforeReset["analytics"]
    /\ infoServiceInstance # <<>>
    /\ infoServiceInstance = beforeReset["info"]

-----------------------------------------------------------------------------
(* MockNetworkClient *)

\* the last call was a request, and it has been answered
RequestAnswered == last.on = "MockNetworkClient" /\ last.op \in RequestOps

\* post or put was given a body that cannot be turned into a string
BodyRejected == last.op \in {"post", "put"} /\ BodyStrThrows(last.arg[3])

LastAnswer == [error |-> last.error, ret |-> last.ret]

\* the answer the configuration holds for the last request: the response for
\* method and url, else for the url, else the default one, or its error
ConfiguredAnswer ==
    LET mockConfig == MockNetworkClient_mockConfig(mockResponses, defaultResponse,
                                                   last.arg[1], last.arg[2])
    IN  IF mockConfig.error # <<>> THEN Rejected(mockConfig.error[1])
        ELSE Resolved(NetworkResponse(mockConfig))

\* C19 as stated: while offline every request rejects with the offline error,
\* whatever is configured, and after simulateOnline() a request is answered
\* with the configured or default response.
C19_Original ==
    /\ (RequestAnswered /\ offline) => last.error = <<M_offline>>
    /\ (RequestAnswered /\ cameOnline) => LastAnswer = ConfiguredAnswer

\* C19, amended: while offline every request whose body can be sent rejects
\* with the offline error, whatever is configured; after simulateOnline() such
\* a request is answered as configured when the error rate is 0, and may
\* reject with the random error when the rate is above 0 (always at rate 1);
\* post and put of a body JSON.stringify refuses reject with its TypeError.
C19_OfflineRejectsOnlineAnswers ==
    /\ (RequestAnswered /\ offline /\ ~BodyRejected) => last.error = <<M_offline>>
    /\ (RequestAnswered /\ BodyRejected) => last.error = <<M_cyclic>>
    /\ (RequestAnswered /\ cameOnline /\ ~BodyRejected) =>
           \/ errorRate > 0 /\ last.error = <<M_random>>
           \/ errorRate < 100 /\ LastAnswer = ConfiguredAnswer

\* after simulateOnline() a post is answered with the response configured for
\* the url, a GET having been recorded before it
C19_Witness ==
    /\ RequestAnswered
    /\ cameOnline
    /\ last.op = "post"
    /\ mockResponses[MockKey(U_test, <<>>)] = <<R_users>>
    /\ last.ret = <<NetworkResponse(R_users)>>
    /\ <<"GET", U_test>> \in requests

-----------------------------------------------------------------------------
(* clearPattern and the characters of a pattern *)

\* the whole of s matches pattern p, where "*" stands for zero or more
\* characters and every other character for itself
RECURSIVE GlobMatch(_, _)
GlobMatch(p, s) ==
    IF p = <<>> THEN s = <<>>
    ELSE IF Head(p) = "*"
    THEN GlobMatch(Tail(p), s) \/ (s # <<>> /\ GlobMatch(p, Tail(s)))
    ELSE s # <<>> /\ Head(p) = Head(s) /\ GlobMatch(Tail(p), Tail(s))

\* the store of the advanced backend a call was made on
StoreOf(on) == IF on = "AdvancedWebStorage" THEN sessionStorage ELSE advStore

\* the last call was clearPattern with a non-empty pattern, on an advanced backend
PatternCleared ==
    /\ last.on \in AdvancedClasses
    /\ last.op = "clearPattern"
    /\ last.arg # <<>>
    /\ last.arg[1] # <<>>

\* C20: clearPattern(pattern) on an advanced backend removes a key if and only
\* if the whole key matches the pattern, "*" standing for zero or more
\* characters and every other character, "." included, for itself: every key
\* it removed matches, and no key that matches is left.
C20_ClearPatternMatchesWholeKey ==
    PatternCleared =>
        /\ \A k \in last.removed : GlobMatch(last.arg[1], k)
        /\ \A k \in Keys : GlobMatch(last.arg[1], k) => StoreOf(last.on)[k] = <<>>


-----------------------------------------------------------------------------
(* Expired entries and the calls that meet them *)

\* the store of class on holds an entry for k that the class counts as
\* expired at time t
StoredExpired(on, store, k, t) ==
    /\ store[k] # <<>>
    /\ IF on = "MockAdvancedPlatformStorage"
       THEN MockAdvanced_expired(store[k][1], t)
       ELSE /\ store[k][1].json
            /\ AdvancedWeb_expired(JSONparse(store[k][1])[1], t)

StoredKeys(store) == {k \in Keys : store[k] # <<>>}

\* the step is a call of op on the advanced class on (time stands still
\* during a call)
Answers(on, op) == last'.on = on /\ last'.op = op /\ now' = now

\* the variables, with the class and the method of the last call in front
callVars == <<last.on, last.op, vars>>

\* C21: right after getAllKeys() on an advanced backend the store holds no
\* expired entry, as many entries as keys were returned, and every entry that
\* was live as it was.
C21_GetAllKeysSweeps ==
    [][\A on \in AdvancedClasses :
        (Answers(on, "getAllKeys") /\ OnlyEnvelopes) =>
            /\ \A k \in Keys : ~StoredExpired(on, StoreOf(on)', k, now)
            /\ Cardinality(StoredKeys(StoreOf(on)')) = Cardinality(last'.ret)
            /\ \A k \in Keys :
                   ~StoredExpired(on, StoreOf(on), k, now)
                       => StoreOf(on)'[k] = StoreOf(on)[k]
      ]_callVars

\* the calls that may take an entry out of the store
RemovingOps == {"getItem", "hasItem", "getAllKeys", "removeItem", "clear", "clearPattern"}

\* C22: expiration is lazy. The passage of time removes nothing; an expired
\* entry leaves the store only in a call that reads or removes; getItem(key)
\* and hasItem(key) on an expired key delete its entry.
C22_ExpirationIsLazy ==
    [][/\ now' # now => (advStore' = advStore /\ sessionStorage' = sessionStorage)
       /\ \A on \in AdvancedClasses, k \in Keys :
            (StoredExpired(on, StoreOf(on), k, now) /\ OnlyEnvelopes) =>
                /\ StoreOf(on)'[k] = <<>> => last'.op \in RemovingOps
                /\ ((Answers(on, "getItem") \/ Answers(on, "hasItem"))
                       /\ last'.arg = <<k>>)
                     => StoreOf(on)'[k] = <<>>
      ]_callVars

-----------------------------------------------------------------------------
(* Overwriting an entry *)

\* getItem(k) of class on at time t, were the store as given
GetItemAt(on, store, k, t) ==
    IF on = "MockAdvancedPlatformStorage" THEN MockAdvanced_getItem(store, k, t)
    ELSE AdvancedWeb_getItem(store, k, t, FALSE)

\* the times at which an entry written now is looked at
Later == {now, now + 1, now + 2, now + 3}

\* the step is setItem(k, ...) on the advanced class on, it took effect, and k
\* had an entry before it
Overwrites(on, k) ==
    /\ Answers(on, "setItem")
    /\ last'.arg = <<k>>
    /\ k \in last'.removed

\* C23 as stated: after setItem(key, v2, ttl2) at t2 over an existing entry,
\* getItem(key) answers v2 exactly while now - t2 <= ttl2, or at all times
\* when ttl2 is absent.
C23_Original ==
    [][\A on \in AdvancedClasses, k \in Keys :
        Overwrites(on, k) =>
            LET w == written'[k][1]
            IN  \A t \in Later :
                    GetItemAt(on, StoreOf(on)', k, t) =
                        IF w.ttl = <<>> \/ t - now <= w.ttl[1]
                        THEN <<w.value>> ELSE <<>>
      ]_callVars

\* C23, amended: after setItem(key, v2, ttl2) at t2 over an existing entry,
\* getItem(key) answers v2 exactly while now - t2 <= ttl2 when ttl2 is
\* positive, and at all times when ttl2 is absent or 0; the entry is the one
\* the same call leaves in an empty store.
C23_OverwriteResetsEntry ==
    [][\A on \in AdvancedClasses, k \in Keys :
        Overwrites(on, k) =>
            LET w == written'[k][1]
            IN  /\ w.at = now /\ w.via = on
                /\ \A t \in Later :
                    GetItemAt(on, StoreOf(on)', k, t) =
                        IF w.ttl = <<>> \/ w.ttl[1] = 0 \/ t - now <= w.ttl[1]
                        THEN <<w.value>> ELSE <<>>
      ]_callVars

\* setItem with TTL 1 on MockAdvancedPlatformStorage has replaced an entry,
\* and getItem answers the new value
C23_Witness ==
    \E k \in Keys :
        /\ last.on = "MockAdvancedPlatformStorage"
        /\ last.op = "setItem"
        /\ last.arg = <<k>>
        /\ k \in last.removed
        /\ written[k] # <<>>
        /\ written[k][1].ttl = <<1>>
        /\ written[k][1].at = now
        /\ GetItemNow("MockAdvancedPlatformStorage", k) = <<written[k][1].value>>

\* C28: on both advanced backends a key last written by setItem(key, value, 0),
\* and not overwritten or removed since, reads back as value and hasItem(key)
\* is true, at every later time.
C28_ZeroTtlNeverExpires ==
    \A k \in Keys :
        (/\ written[k] # <<>>
         /\ written[k][1].via \in AdvancedClasses
         /\ written[k][1].ttl = <<0>>)
            => /\ GetItemNow(written[k][1].via, k) = <<written[k][1].value>>
               /\ HasItemNow(written[k][1].via, k)

\* three time units after setItem(key, value, 0), hasItem(key) has answered
\* true on MockAdvancedPlatformStorage
C28_Witness ==
    \E k \in Keys :
        /\ written[k] # <<>>
        /\ written[k][1].via = "MockAdvancedPlatformStorage"
        /\ written[k][1].ttl = <<0>>
        /\ now = written[k][1].at + 3
        /\ last.on = "MockAdvancedPlatformStorage"
        /\ last.op = "hasItem"
        /\ last.arg = <<k>>
        /\ last.ret = TRUE

-----------------------------------------------------------------------------
(* The type of a created service *)

\* C24: the instance createStorage(T) returned answers T to getType() in
\* every state reached afterwards.
C24_TypeOfInstanceIsFixed ==
    \A t \in StorageTypes :
        firstCreated[t] # <<>> =>
            MockStorageService_getType(services, firstCreated[t][1]) = t

----------------------------------------------------------------------------
(* Two callers race on setItem.  setItem of both advanced storages is a    *)
(* synchronous method: the caller's async function runs up to the call,    *)
(* and the call itself is one step of the event loop.                      *)

RacingBackends == {"MockAdvancedPlatformStorage", "sessionStorage"}

\* how many of the racers' writes are done
Completed == Cardinality({c \in Racers : racers[c].pc = "completed"})

\* a caller starts its async function: setItem(key, value) is about to run
RaceIssue(c, key, value) ==
    /\ racers[c].pc = "idle"
    /\ racers' = [racers EXCEPT ![c] = [pc |-> "issued", key |-> key,
                                        value |-> value, rank |-> 0]]
    /\ UNCHANGED <<wired, last, storageVars, platformVars, singletonVars,
                   networkVars, hookVars, cacheVars, debounceVars, navigationVars>>

\* the caller's setItem(key, value) runs: no ttl argument
RaceWrite(c) ==
    /\ racers[c].pc = "issued"
    /\ \/ /\ wired = "MockAdvancedPlatformStorage"
          /\ advStore' = MockAdvanced_setItem(advStore, racers[c].key,
                                              racers[c].value, <<>>, now)
          /\ written' = [written EXCEPT ![racers[c].key] =
                           Write(racers[c].value, <<>>, "MockAdvancedPlatformStorage")]
          /\ last' = Replacing("MockAdvancedPlatformStorage", racers[c].key,
                               advStore, TRUE)
          /\ UNCHANGED sessionStorage
       \/ /\ wired = "sessionStorage"
          /\ sessionStorage' =
                 AdvancedWeb_setItem(sessionStorage, racers[c].key, racers[c].value,
                                     <<>>, now, storageThrows)
          /\ written' = IF storageThrows THEN written
                        ELSE [written EXCEPT ![racers[c].key] =
                                Write(racers[c].value, <<>>, "AdvancedWebStorage")]
          /\ last' = Replacing("AdvancedWebStorage", racers[c].key, sessionStorage,
                               ~storageThrows)
          /\ UNCHANGED advStore
    /\ racers' = [racers EXCEPT ![c].pc = "completed", ![c].rank = Completed + 1]
    /\ UNCHANGED <<wired, now, mockStore, storageThrows, factoryVars,
                   serializedVars, platformVars, singletonVars, networkVars,
                   hookVars, cacheVars, debounceVars, navigationVars>>

InitRace == wired \in RacingBackends /\ InitCommon

NextRace ==
    \/ Tick
    \/ \E c \in Racers, k \in Keys, v \in Values : RaceIssue(c, k, v)
    \/ \E c \in Racers : RaceWrite(c)
    \/ \E k \in Keys : MockAdvancedGetItem(k)
    \/ \E k \in Keys : AdvancedWebGetItem(k)

SpecRace == InitRace /\ [][NextRace]_vars

\* the racer whose write completed last, once both are done
LastWriter == CHOOSE c \in Racers : racers[c].rank = Cardinality(Racers)

\* both writes are done and they were to the same key
RaceOver(k) ==
    /\ \A c \in Racers : racers[c].pc = "completed" /\ racers[c].key = k

\* what getItem(k) returns in this state
ReadNow(k) ==
    IF wired = "sessionStorage"
    THEN AdvancedWeb_getItem(sessionStorage, k, now, storageThrows)
    ELSE MockAdvanced_getItem(advStore, k, now)

\* C25: once two racing setItem calls on one key are both done, getItem of
\* the key returns the value of the write that was done last, which is one
\* of the two values written, at every later time.
C25_LastWriterWins ==
    \A k \in Keys :
        RaceOver(k) =>
            /\ ReadNow(k) = <<racers[LastWriter].value>>
            /\ \E c \in Racers : ReadNow(k) = <<racers[c].value>>
            /\ (last.op = "getItem" /\ last.arg = <<k>> =>
                    last.ret = <<racers[LastWriter].value>>)

\* the two racers wrote different values to one key, the second one to
\* issue was the first to write, and a getItem has read the key since
C25_Witness ==
    /\ RaceOver(K_user1)
    /\ racers["first"].value # racers["second"].value
    /\ racers["first"].rank = 2
    /\ last.op = "getItem"
    /\ last.arg = <<K_user1>>
    /\ last.ret = <<racers["first"].value>>
    /\ now > written[K_user1][1].at

----------------------------------------------------------------------------
(* useApiCall: executeAsync and execute hand the operation to              *)
(* withLoadingState, which runs up to its await in the caller's step and   *)
(* the rest when the operation's promise settles.                          *)

\* how an operation's promise settles: with data, rejected with
\* new Error("boom"), or rejected with the string "denied"
Fulfilled == [ok |-> TRUE, data |-> "rows", isError |-> FALSE, thrown |-> ""]
Failed == [ok |-> FALSE, data |-> "", isError |-> TRUE, thrown |-> "boom"]
Refused == [ok |-> FALSE, data |-> "", isError |-> FALSE, thrown |-> "denied"]
Settlements == {Fulfilled, Failed, Refused}

\* error instanceof Error ? error.message : String(error)
errorMessage(settled) == settled.thrown

HookCallers == {"useApiCall"}

\* withLoadingState up to the await: setLoading(true); setError(null);
\* operation() is called
withLoadingState_begin(o, via) ==
    /\ operations[o] = "idle"
    /\ isLoading' = TRUE
    /\ error' = <<>>
    /\ operations' = [operations EXCEPT ![o] = "running"]
    /\ last' = Call("useApiCall", via, <<o>>, <<>>)

\* withLoadingState after the await: return the result, or setError(message)
\* and return undefined; finally setLoading(false)
withLoadingState_end(o, settled) ==
    /\ operations[o] = "running"
    /\ error' = IF settled.ok THEN error ELSE <<errorMessage(settled)>>
    /\ isLoading' = FALSE
    /\ operations' = [operations EXCEPT ![o] = "idle"]
    /\ last' = Call("useApiCall", "settled", <<o>>,
                    IF settled.ok THEN <<settled.data>> ELSE <<>>)

ExecuteAsync(o) ==
    /\ wired = "useApiCall"
    /\ withLoadingState_begin(o, "executeAsync")
    /\ UNCHANGED <<wired, storageVars, platformVars, singletonVars, networkVars,
                   racers, cacheVars, debounceVars, navigationVars>>

\* execute(operation)(...args) is executeAsync(() => operation(...args))
Execute(o) ==
    /\ wired = "useApiCall"
    /\ withLoadingState_begin(o, "execute")
    /\ UNCHANGED <<wired, storageVars, platformVars, singletonVars, networkVars,
                   racers, cacheVars, debounceVars, navigationVars>>

\* the promise of a running operation settles
OperationSettles(o, settled) ==
    /\ wired = "useApiCall"
    /\ withLoadingState_end(o, settled)
    /\ UNCHANGED <<wired, storageVars, platformVars, singletonVars, networkVars,
                   racers, cacheVars, debounceVars, navigationVars>>

ClearError ==
    /\ wired = "useApiCall"
    /\ error' = <<>>
    /\ last' = Call("useApiCall", "clearError", <<>>, <<>>)
    /\ UNCHANGED <<wired, storageVars, platformVars, singletonVars, networkVars,
                   racers, cacheVars, debounceVars, navigationVars, isLoading, operations>>

InitApiCall == wired \in HookCallers /\ InitCommon

NextApiCall ==
    \/ \E o \in Operations : ExecuteAsync(o)
    \/ \E o \in Operations : Execute(o)
    \/ \E o \in Operations, r \in Settlements : OperationSettles(o, r)
    \/ ClearError

SpecApiCall == InitApiCall /\ [][NextApiCall]_vars

\* the operations that were started and have not finished
InProgress == {o \in Operations : operations[o] = "running"}

\* C26: isLoading is true exactly while at least one operation started
\* through executeAsync or execute is still in progress.
C26_LoadingWhileAnyInProgress == isLoading <=> InProgress # {}

----------------------------------------------------------------------------
(* withCache and clearExpiredCache.  A call of withCache runs up to its    *)
(* await in the caller's step; time can pass before the operation's        *)
(* promise settles and the call goes on.                                   *)

\* ttlMs argument of withCache
TtlMs == {1, 2}

CacheCallersWired == {"withCache"}

\* cached && now - cached.timestamp < cached.ttl
withCache_fresh(entry, t) ==
    /\ entry # <<>>
    /\ t - entry[1].timestamp < entry[1].ttl

\* now - entry.timestamp >= entry.ttl
clearExpiredCache_expired(entry, t) == t - entry.timestamp >= entry.ttl

\* withCache, the cached entry is fresh: return cached.data
WithCacheHit(c, key, ttlMs) ==
    /\ wired = "withCache"
    /\ cacheCalls[c] = <<>>
    /\ withCache_fresh(cache[key], now)
    /\ last' = Call("withCache", "cached", <<key, ttlMs>>, <<cache[key][1].data>>)
    /\ UNCHANGED <<wired, storageVars, platformVars, singletonVars, networkVars,
                   racers, hookVars, cacheVars, debounceVars, navigationVars>>

\* withCache, no fresh entry: operation() is called and awaited; now was
\* read before the call
WithCacheMiss(c, key, ttlMs) ==
    /\ wired = "withCache"
    /\ cacheCalls[c] = <<>>
    /\ ~withCache_fresh(cache[key], now)
    /\ cacheCalls' = [cacheCalls EXCEPT
                        ![c] = <<[key |-> key, ttlMs |-> ttlMs, now |-> now]>>]
    /\ last' = Call("withCache", "operation", <<key, ttlMs>>, <<>>)
    /\ UNCHANGED <<wired, storageVars, platformVars, singletonVars, networkVars,
                   racers, hookVars, cache, obtained, debounceVars, navigationVars>>

\* the operation's promise is fulfilled with the resource as it is now:
\* cache.set(key, { data: result, timestamp: now, ttl: ttlMs }); return result
WithCacheFulfilled(c) ==
    /\ wired = "withCache"
    /\ cacheCalls[c] # <<>>
    /\ cache' = [cache EXCEPT ![cacheCalls[c][1].key] =
                    <<[data |-> now, timestamp |-> cacheCalls[c][1].now,
                       ttl |-> cacheCalls[c][1].ttlMs]>>]
    /\ obtained' = [obtained EXCEPT ![cacheCalls[c][1].key] =
                       <<[data |-> now, at |-> now]>>]
    /\ cacheCalls' = [cacheCalls EXCEPT ![c] = <<>>]
    /\ last' = Call("withCache", "fresh",
                    <<cacheCalls[c][1].key, cacheCalls[c][1].ttlMs>>, <<now>>)
    /\ UNCHANGED <<wired, storageVars, platformVars, singletonVars, networkVars,
                   racers, hookVars, debounceVars, navigationVars>>

\* the operation's promise is rejected: withCache rejects, nothing is cached
WithCacheRejected(c) ==
    /\ wired = "withCache"
    /\ cacheCalls[c] # <<>>
    /\ cacheCalls' = [cacheCalls EXCEPT ![c] = <<>>]
    /\ last' = Raise("withCache", "rejected",
                     <<cacheCalls[c][1].key, cacheCalls[c][1].ttlMs>>, "boom")
    /\ UNCHANGED <<wired, storageVars, platformVars, singletonVars, networkVars,
                   racers, hookVars, cache, obtained, debounceVars, navigationVars>>

ClearExpiredCache ==
    /\ wired = "withCache"
    /\ cache' = [k \in CacheKeys |->
                    IF cache[k] # <<>> /\ clearExpiredCache_expired(cache[k][1], now)
                    THEN <<>> ELSE cache[k]]
    /\ last' = Call("withCache", "clearExpiredCache", <<>>, <<>>)
    /\ UNCHANGED <<wired, storageVars, platformVars, singletonVars, networkVars,
                   racers, hookVars, cacheCalls, obtained, debounceVars, navigationVars>>

InitWithCache == wired \in CacheCallersWired /\ InitCommon

NextWithCache ==
    \/ Tick
    \/ \E c \in CacheCallers, k \in CacheKeys, ttl \in TtlMs : WithCacheHit(c, k, ttl)
    \/ \E c \in CacheCallers, k \in CacheKeys, ttl \in TtlMs : WithCacheMiss(c, k, ttl)
    \/ \E c \in CacheCallers : WithCacheFulfilled(c)
    \/ \E c \in CacheCallers : WithCacheRejected(c)
    \/ ClearExpiredCache

SpecWithCache == InitWithCache /\ [][NextWithCache]_vars

\* the step is a call withCache(key, operation, ttlMs), up to its return or
\* its await
CallsWithCache(key, ttlMs) ==
    /\ last'.on = "withCache"
    /\ last'.op \in {"cached", "operation"}
    /\ last'.arg = <<key, ttlMs>>
    /\ now' = now

\* an earlier call for the key produced a result less than ttlMs ago
ObtainedWithin(key, ttlMs) ==
    /\ obtained[key] # <<>>
    /\ now - obtained[key][1].at < ttlMs

\* C27: a withCache call returns the result an earlier call for the key
\* obtained less than ttlMs ago without invoking operation; every other
\* call invokes operation, and when that succeeds the fresh result is
\* cached and returned.
C27_MemoizesWithinTtl ==
    [][ /\ \A k \in CacheKeys, ttl \in TtlMs :
              CallsWithCache(k, ttl) =>
                  IF ObtainedWithin(k, ttl)
                  THEN last'.op = "cached" /\ last'.ret = <<obtained[k][1].data>>
                  ELSE last'.op = "operation"
        /\ \A k \in CacheKeys :
              last'.on = "withCache" /\ last'.op = "fresh" /\ last'.arg[1] = k
                      /\ now' = now =>
                  /\ cache'[k] # <<>>
                  /\ last'.ret = <<cache'[k][1].data>>
                  /\ last'.ret = <<now>>
      ]_callVars

----------------------------------------------------------------------------
(* debounceAsync.  A call of a debounced function returns a new promise,   *)
(* cancels the timer stored under the key and stores a new one; the timer  *)
(* runs no earlier than delay after the call, and it awaits fn.            *)

\* delay argument of debounceAsync
Delays == {1, 2}

DebounceCallersWired == {"debounceAsync"}

\* mutant: the timer stored under the key is left running
clearTimeout_forgotten(all, existingTimeout) == all

\* if (existingTimeout) clearTimeout(existingTimeout)
clearTimeout(all, existingTimeout) ==
    [c \in DebounceCalls |->
        IF existingTimeout = <<c>> /\ all[c].state = "timer"
        THEN [all[c] EXCEPT !.state = "cancelled"]
        ELSE all[c]]

\* a call made now falls within the delay of the call whose timer is stored
\* under the key
Supersedes(key) ==
    {c \in DebounceCalls : /\ debounceMap[key] = <<c>>
                           /\ now < timers[c].due}

\* a debounced function made by debounceAsync(fn, delay, key) is called
Debounced(c, key, delay) ==
    /\ wired = "debounceAsync"
    /\ timers[c].state = "unused"
    /\ timers' = [d \in DebounceCalls |->
                    IF d = c
                    THEN [NotCalled EXCEPT !.state = "timer", !.key = key,
                                           !.due = now + delay]
                    ELSE [clearTimeout(timers, debounceMap[key])[d] EXCEPT
                            !.superseded = @ \/ d \in Supersedes(key)]]
    /\ debounceMap' = [debounceMap EXCEPT ![key] = <<c>>]
    /\ last' = Call("debounceAsync", "debounced", <<c, key, delay>>, <<>>)
    /\ UNCHANGED <<wired, storageVars, platformVars, singletonVars, networkVars,
                   racers, hookVars, cacheVars, navigationVars>>

\* the timer of a call runs: debounceMap.delete(key); fn(...args) is called
\* and awaited
TimerFires(c) ==
    /\ wired = "debounceAsync"
    /\ timers[c].state = "timer"
    /\ now >= timers[c].due
    /\ debounceMap' = [debounceMap EXCEPT ![timers[c].key] = <<>>]
    /\ timers' = [timers EXCEPT ![c].state = "running"]
    /\ last' = Call("debounceAsync", "fn", <<c>>, <<>>)
    /\ UNCHANGED <<wired, storageVars, platformVars, singletonVars, networkVars,
                   racers, hookVars, cacheVars, navigationVars>>

\* fn's promise is fulfilled: resolve(result)
FnFulfilled(c) ==
    /\ wired = "debounceAsync"
    /\ timers[c].state = "running"
    /\ timers' = [timers EXCEPT ![c].state = "resolved", ![c].value = <<c>>]
    /\ last' = Call("debounceAsync", "resolve", <<c>>, <<c>>)
    /\ UNCHANGED <<wired, storageVars, platformVars, singletonVars, networkVars,
                   racers, hookVars, cacheVars, debounceMap, navigationVars>>

\* fn throws or its promise is rejected: resolve(undefined)
FnRejected(c) ==
    /\ wired = "debounceAsync"
    /\ timers[c].state = "running"
    /\ timers' = [timers EXCEPT ![c].state = "resolved", ![c].threw = TRUE]
    /\ last' = Call("debounceAsync", "resolve", <<c>>, <<>>)
    /\ UNCHANGED <<wired, storageVars, platformVars, singletonVars, networkVars,
                   racers, hookVars, cacheVars, debounceMap, navigationVars>>

InitDebounced == wired \in DebounceCallersWired /\ InitCommon

NextDebounced ==
    \/ Tick
    \/ \E c \in DebounceCalls, k \in DebounceKeys, d \in Delays : Debounced(c, k, d)
    \/ \E c \in DebounceCalls : TimerFires(c)
    \/ \E c \in DebounceCalls : FnFulfilled(c)
    \/ \E c \in DebounceCalls : FnRejected(c)

SpecDebounced == InitDebounced /\ [][NextDebounced]_vars

\* the calls whose timer is pending under the key
PendingTimers(key) ==
    {c \in DebounceCalls : timers[c].state = "timer" /\ timers[c].key = key}

\* fn was invoked with the call's arguments
Invoked(c) == timers[c].state \in {"running", "resolved"}

\* the promise returned to the caller is settled
Settled(c) == timers[c].state = "resolved"

\* C29: per key at most one timer is pending, and it is the one stored
\* under the key; a call followed within its delay by a call with the same
\* key never has fn invoked with its arguments and its promise never
\* settles; a promise that settles resolves with fn's result for the
\* call's own arguments, or with undefined when fn threw.
C29_OnlyLastOfBurstRuns ==
    /\ \A k \in DebounceKeys :
          /\ Cardinality(PendingTimers(k)) <= 1
          /\ \A c \in PendingTimers(k) : debounceMap[k] = <<c>>
    /\ \A c \in DebounceCalls :
          /\ timers[c].superseded => ~Invoked(c) /\ ~Settled(c)
          /\ Settled(c) =>
                timers[c].value = IF timers[c].threw THEN <<>> ELSE <<c>>

\* a burst of three calls on one key: the first two were superseded and
\* their delays are over, the third one's promise resolved with fn's result
C29_Witness ==
    /\ \A c \in {"first", "second"} :
          /\ timers[c].superseded
          /\ timers[c].key = "search"
          /\ now >= timers[c].due
    /\ timers["third"].key = "search"
    /\ Settled("third")
    /\ timers["third"].value = <<"third">>

----------------------------------------------------------------------------
(* MockNavigationService: the history and the index into it.  The params,  *)
(* the state, the listeners and the recorded events are written by these   *)
(* methods and read by none of them.                                       *)

\* the longest history a run builds
MaxHistory == 4

\* path argument of navigate and replace
Paths == {"/", "/home", "/about"}

\* fallbackPath argument of goBack: absent, "" and a path
FallbackPaths == {<<>>, <<"">>, <<"/home">>}

NavigationCallers == {"MockNavigationService"}

\* mutant: the forward history stays
MockNavigation_navigate_keepsForward(h, i, path, replace) ==
    IF replace
    THEN [history |-> [h EXCEPT ![i + 1] = path], historyIndex |-> i]
    ELSE [history |-> Append(h, path), historyIndex |-> i + 1]

\* navigate: history[historyIndex] = path with options.replace; else the
\* forward history is cut off, path is pushed and the index is the last one
MockNavigation_navigate(h, i, path, replace) ==
    IF replace
    THEN [history |-> [h EXCEPT ![i + 1] = path], historyIndex |-> i]
    ELSE [history |-> Append(SubSeq(h, 1, i + 1), path), historyIndex |-> i + 1]

\* goBack: one step back, or navigate(fallbackPath) at the start of the
\* history when fallbackPath is a non-empty string
MockNavigation_goBack(h, i, fallbackPath) ==
    IF i > 0 THEN [history |-> h, historyIndex |-> i - 1]
    ELSE IF fallbackPath # <<>> /\ fallbackPath # <<"">>
         THEN MockNavigation_navigate(h, i, fallbackPath[1], FALSE)
         ELSE [history |-> h, historyIndex |-> i]

\* goForward
MockNavigation_goForward(h, i) ==
    [history |-> h, historyIndex |-> IF i < Len(h) - 1 THEN i + 1 ELSE i]

\* this.history[this.historyIndex] ?? '/'
getCurrentPath ==
    IF historyIndex + 1 \in DOMAIN history THEN history[historyIndex + 1] ELSE "/"

canGoBack == historyIndex > 0

canGoForward == historyIndex < Len(history) - 1

NavigationStep(op, arg, after) ==
    /\ wired = "MockNavigationService"
    /\ Len(after.history) <= MaxHistory
    /\ history' = after.history
    /\ historyIndex' = after.historyIndex
    /\ last' = Call("MockNavigationService", op, arg, <<>>)
    /\ UNCHANGED <<wired, storageVars, platformVars, singletonVars, networkVars,
                   racers, hookVars, cacheVars, debounceVars>>

Navigate(path, replace) ==
    NavigationStep("navigate", <<path, replace>>,
                   MockNavigation_navigate(history, historyIndex, path, replace))

GoBack(fallbackPath) ==
    NavigationStep("goBack", fallbackPath,
                   MockNavigation_goBack(history, historyIndex, fallbackPath))

GoForward ==
    NavigationStep("goForward", <<>>,
                   MockNavigation_goForward(history, historyIndex))

\* replace(path) is navigate(path, { replace: true }) on the history
Replace(path) ==
    NavigationStep("replace", <<path>>,
                   MockNavigation_navigate(history, historyIndex, path, TRUE))

NavigationReset ==
    NavigationStep("reset", <<>>, [history |-> <<"/">>, historyIndex |-> 0])

InitNavigation == wired \in NavigationCallers /\ InitCommon

NextNavigation ==
    \/ \E p \in Paths, r \in BOOLEAN : Navigate(p, r)
    \/ \E f \in FallbackPaths : GoBack(f)
    \/ GoForward
    \/ \E p \in Paths : Replace(p)
    \/ NavigationReset

SpecNavigation == InitNavigation /\ [][NextNavigation]_vars

\* the last call pushed a path: navigate without replace
Pushed ==
    /\ last.on = "MockNavigationService"
    /\ last.op = "navigate"
    /\ last.arg[2] = FALSE

\* C30: the history is never empty and historyIndex is an index into it,
\* so getCurrentPath() is an entry of the history; canGoBack() holds
\* exactly when historyIndex > 0; after a navigate without replace
\* canGoForward() is false.
C30_IndexWithinHistory ==
    /\ Len(history) > 0
    /\ 0 <= historyIndex
    /\ historyIndex < Len(history)
    /\ \E n \in DOMAIN history : history[n] = getCurrentPath
    /\ canGoBack <=> historyIndex > 0
    /\ Pushed => ~canGoForward /\ getCurrentPath = last.arg[1]

\* a navigate without replace to the path that was current: the history
\* has three entries, ends with the path twice, and the index is the last
C30_Witness ==
    /\ Pushed
    /\ Len(history) = 3
    /\ historyIndex = 2
    /\ history[3] = "/about"
    /\ history[2] = "/about"
    /\ canGoBack
============================================================================
